---- MODULE Spec2Model ----
(***************************************************************************)
(* Loop Synthesis Engine of videolooper.                                   *)
(*                                                                         *)
(* Two implementations of the same engine are modelled side by side:       *)
(*   impl = "js" : class VideoProcessor            (video-processor.js)    *)
(*   impl = "sh" : the script server/loop-maker.sh (v2.5)                  *)
(* One behaviour of Spec is one invocation: a request (technique, fade     *)
(* duration, start second, all as the text the caller passed), a source    *)
(* video of some length, and an environment that decides at every external *)
(* step (ffprobe, ffmpeg, mkdir, rm, cp) whether the step succeeds.        *)
(* One behaviour of Concurrent is several invocations of createLoop that   *)
(* interleave at their awaits and share one file system and one clock.     *)
(* One behaviour of Cancellation is one invocation whose caller may give   *)
(* up at any moment.  One behaviour of Http is one POST /api/loop request  *)
(* going through multer and the handler of server.ts or of the serverless  *)
(* app, the processor reduced to "resolves or rejects".  One behaviour of  *)
(* Uploader is a session with the upload form LoopMakerUploader.           *)
(*                                                                         *)
(* Times are integers (ticks).  The floating-point arithmetic of the code  *)
(* is exact on such values, so a - b, 2 * a and a >= b / 2 are modelled by *)
(* integer arithmetic; NaN is kept as a distinguished value.               *)
(***************************************************************************)
EXTENDS Integers, Sequences, FiniteSets, TLC

VARIABLES
    impl,       \* "js" (VideoProcessor) or "sh" (loop-maker.sh)
    req,        \* the request: raw technique, entry point, fade / start texts
    src,        \* the source asset: its true length in ticks
    pc,         \* position of the invocation in its code
    ret,        \* finally block / caller to return to after concatenateVideos
    hasBc,      \* sh: is the bc utility installed (else the stub of l.64-109)
    duration,   \* the probed duration (a number, NaN, or NotProbed)
    fps,        \* the frame rate handed to -r ("unset" before probing)
    calls,      \* ffmpeg (Transcoder) calls issued so far, with their result
    segments,   \* the concat list: clip names in playback order
    tempDir,    \* the workspace directory: "absent", "present" or "removed"
    tmpFiles,   \* files inside the workspace: name -> content
    output,     \* content of the output file <input>_loop.mp4
    error,      \* the pending error ("none" when there is none)
    outcome,    \* "running", "done" (resolved / exit 0), "failed" (rejected / exit # 0)
    \* -- several invocations of createLoop in one process (Concurrent) --
    now,        \* the clock: the value Date.now() returns
    inv,        \* per invocation: inputFile, tempDir, pc, error, outcome
    dirs,       \* the file system: workspace path -> directory content
    outs,       \* the file system: input file -> content of <input>_loop.mp4
    \* -- a caller that gives up on the invocation (Cancellation) --
    cancelled,  \* number of ffmpeg calls issued when the caller gave up
    \* -- one POST /api/loop request (Http) --
    variant,    \* "server" (server.ts) or "serverless" (api/loop handlers)
    post,       \* the request: does it carry a file, the technique field
    hpc,        \* position of the request in multer / the handler
    tmp,        \* the request's files: tmpIn / inputPath, tmpOut / outputPath, tempDir
    effects,    \* what the handler did: file operations, processor calls
    responses,  \* the responses written to res, in order
    derr,       \* the err res.download hands to its callback
    \* -- the upload form LoopMakerUploader (Uploader) --
    file,       \* useState file: the chosen file or null
    busy,       \* useState busy
    status,     \* useState status: the message shown
    techniqueSel, \* useState technique
    fadeInput,  \* useState fadeDuration, as the text fadeDuration.toString()
    startInput, \* useState startSecond, as the text startSecond.toString()
    subs,       \* the calls of submit() that have not returned yet
    submits,    \* how often submit() was called
    fetches     \* the POST requests sent so far

vars == <<impl, req, src, pc, ret, hasBc, duration, fps, calls, segments,
          tempDir, tmpFiles, output, error, outcome>>

\* the variables of the concurrent specification
pair == <<now, inv, dirs, outs>>

\* the variables of the request handlers and of the upload form
http == <<variant, post, hpc, tmp, effects, responses, derr>>
uploader == <<file, busy, status, techniqueSel, fadeInput, startInput, subs,
              submits, fetches>>

\* what no step of an invocation touches
outside == <<cancelled, http, uploader>>

\* ---------------------------------------------------------------- bounds
MaxDuration == 10
MaxFade == 3
MaxStart == 5
MaxClock == 1
MaxInvocations == 2
MaxSubmits == 2

\* ---------------------------------------------------------------- values
\* parseFloat's "not a number"; bc's and the probes' absent values
NaN == 0 - 1000
ToEnd == 0 - 1001
NotProbed == 0 - 1002

\* A numeric text as the caller wrote it.  kind "plain" is the canonical
\* decimal text of val ("0", "3"); "decimal" is a different spelling of the
\* same number ("0.0"); "junk" is a text that is not a number ("abc").
Num(v) == [kind |-> "plain", val |-> v]
ZeroPointZero == [kind |-> "decimal", val |-> 0]
Junk == [kind |-> "junk", val |-> 0]

FadeTexts == {Num(v) : v \in 0..MaxFade} \cup {ZeroPointZero, Junk}
StartTexts == {Num(v) : v \in (0 - 1)..MaxStart} \cup {ZeroPointZero, Junk}

Missing == "<missing>"
RawTechniques == {"crossfade", "reverse", "pingpong", "", Missing}

\* ------------------------------------------------- JavaScript arithmetic
parseFloat(t) == IF t.kind = "junk" THEN NaN ELSE t.val

JsSub(a, b) == IF a = NaN \/ b = NaN THEN NaN ELSE a - b
JsGt(a, b) == a # NaN /\ b # NaN /\ a > b
JsIsZero(a) == a # NaN /\ a = 0
\* x >= d / 2: halving is exact, so the test is 2x >= d on numbers
JsGeHalf(x, d) == x # NaN /\ d # NaN /\ 2 * x >= d

Max(a, b) == IF a >= b THEN a ELSE b
Min(a, b) == IF a <= b THEN a ELSE b

\* ------------------------------------------------------ clips and ffmpeg
\* A clip is a sequence of pieces of source time.
Piece(k, a, b, l) == [kind |-> k, a |-> a, b |-> b, len |-> l]
NoFile == <<Piece("nofile", 0, 0, 0)>>
Partial == <<Piece("partial", 0, 0, 0)>>

RECURSIVE Dur(_)
Dur(c) == IF c = <<>> THEN 0 ELSE c[1].len + Dur(Tail(c))

SrcClip == IF src.len > 0 THEN <<Piece("fwd", 0, src.len, src.len)>> ELSE <<>>

\* ffmpeg -i input -ss ss [-t t]
Extract(ss, t) ==
    LET a == Max(0, ss)
        b == IF t = ToEnd THEN src.len ELSE Min(src.len, ss + t)
    IN  IF b > a THEN <<Piece("fwd", a, b, b - a)>> ELSE <<>>

\* ffmpeg -i input -vf reverse
ReverseClip(c) ==
    [i \in 1..Len(c) |-> [c[Len(c) + 1 - i] EXCEPT !.kind = "rev"]]

BlendNoOverlap(e, s, f) ==
    IF e = <<>> \/ s = <<>> THEN <<>>
    ELSE <<Piece("blend", e[1].a, s[Len(s)].b, Dur(e) + Dur(s))>>

\* ffmpeg -i e -i s -filter_complex xfade=transition=fade:duration=f:offset=0
Blend(e, s, f) ==
    IF e = <<>> \/ s = <<>> THEN <<>>
    ELSE <<Piece("blend", e[1].a, s[Len(s)].b, Dur(e) + Dur(s) - f)>>

RECURSIVE ConcatClips(_, _)
ConcatClips(names, files) ==
    IF names = <<>> THEN <<>>
    ELSE files[names[1]] \o ConcatClips(Tail(names), files)

CallInPlace(op, mode, ss, t, r, ins, out) ==
    [op |-> op, mode |-> mode, ss |-> ss, t |-> t, r |-> r, ins |-> ins,
     out |-> ins[1], ok |-> TRUE]

\* One Transcoder call.  ss / t are the -ss / -t (or -to) values handed to
\* ffmpeg (NaN when the text is not a number, ToEnd when the option is absent)
Call(op, mode, ss, t, r, ins, out) ==
    [op |-> op, mode |-> mode, ss |-> ss, t |-> t, r |-> r, ins |-> ins,
     out |-> out, ok |-> TRUE]

\* ffmpeg rejects a time or rate option that is not a number; any other call may
\* succeed or fail
Results(c) ==
    IF c.ss = NaN \/ c.t = NaN \/ c.r = "NaN" THEN {FALSE} ELSE BOOLEAN

\* ------------------------------------------- concurrent invocations: values
Procs == 1..MaxInvocations

\* the files createLoop is called on: tmp/uploads/<id> (server.ts l.44), or
\* any path a direct caller passes
InputFiles == [dir : {"tmp/uploads", "elsewhere"}, name : {"a", "b"}]

NoPath == [dir |-> "", at |-> 0 - 1]
TempDirs == [dir : {"tmp/uploads", "elsewhere"}, at : 0..MaxClock] \cup {NoPath}

\* nothing is in flight: the state of the concurrent variables in Spec
NoInvocations ==
    /\ now = 0
    /\ inv = <<>>
    /\ dirs = <<>>
    /\ outs = <<>>

\* ----------------------------------------------- caller, handlers, form: values
\* the caller has not given up
NotCancelled == 0 - 1

NoFiles == [tmpIn |-> "absent", tmpOut |-> "absent", tempDir |-> "absent"]
Response(code, type) == [status |-> code, type |-> type]
Effect(op, on, ok) == [op |-> op, on |-> on, ok |-> ok]

\* no request is being handled: the state of the handler variables in the
\* other specifications
NoRequest ==
    /\ variant = "server"
    /\ post = [hasFile |-> FALSE, technique |-> Missing]
    /\ hpc = "done"
    /\ tmp = NoFiles
    /\ effects = <<>>
    /\ responses = <<>>
    /\ derr = "none"

\* useState<File | null>(null): nothing chosen
NoFileChosen == "null"
Files == {"a.mp4", "b.mov"}
TECHNIQUES == {"reverse", "crossfade"}
\* what the number inputs can hold: parseFloat of the typed text, NaN when
\* the field is emptied
FadeInputs == {"0.5", "1", "NaN"}
StartInputs == {"0", "2", "NaN"}

\* LoopMakerUploader l.12-18: the state of a freshly rendered form
NoForm ==
    /\ file = NoFileChosen
    /\ busy = FALSE
    /\ status = ""
    /\ techniqueSel = "reverse"
    /\ fadeInput = "0.5"
    /\ startInput = "0"
    /\ subs = <<>>
    /\ submits = 0
    /\ fetches = 0

\* ------------------------------------------------------------------ Init
Init ==
    /\ NoInvocations
    /\ cancelled = NotCancelled
    /\ NoRequest
    /\ NoForm
    /\ impl \in {"js", "sh"}
    /\ req \in [technique : RawTechniques, viaHttp : BOOLEAN,
                fadeDuration : FadeTexts, startSecond : StartTexts]
    /\ src \in [len : 0..MaxDuration]
    /\ pc = "start"
    /\ ret = "none"
    /\ hasBc = TRUE
    /\ duration = NotProbed
    /\ fps = "unset"
    /\ calls = <<>>
    /\ segments = <<>>
    /\ tempDir = "absent"
    /\ tmpFiles = <<>>
    /\ output = NoFile
    /\ error = "none"
    /\ outcome = "running"

\* ------------------------------------------------------- technique value
\* server.ts: req.body.technique && VALID_TECHNIQUES.includes(...) ? ... : "reverse"
VALID_TECHNIQUES == {"crossfade", "reverse"}
NormaliseTechnique(raw) ==
    IF raw # Missing /\ raw # "" /\ raw \in VALID_TECHNIQUES THEN raw ELSE "reverse"

\* createLoop(inputFile, technique = "reverse", ...): the default applies to
\* a missing argument only
DefaultTechnique(raw) == IF raw = Missing THEN "reverse" ELSE raw

\* the technique createLoop sees
Technique ==
    IF req.viaHttp THEN DefaultTechnique(NormaliseTechnique(req.technique))
    ELSE DefaultTechnique(req.technique)

DispatchKnownOnly(technique) ==
    IF technique = "reverse" THEN "rev_mkdir" ELSE "getVideoDuration"

\* createLoop l.31-41: technique === "crossfade" ? crossfade : reverse
Dispatch(technique) ==
    IF technique = "crossfade" THEN "getVideoDuration" ELSE "rev_mkdir"

\* --------------------------------------------------------------- helpers
Issue(c, ok) == calls' = Append(calls, [c EXCEPT !.ok = ok])

\* a promise rejects outside any try/finally: createLoop's catch rethrows
Reject(why) ==
    /\ error' = why
    /\ outcome' = "failed"
    /\ pc' = "end"

ThrowAndRetry(why, finally) ==
    /\ error' = why
    /\ pc' = pc
    /\ UNCHANGED outcome

\* a step inside try { } finally { } rejects: run the finally block first
Throw(why, finally) ==
    /\ error' = why
    /\ pc' = finally
    /\ UNCHANGED outcome

\* what a failed ffmpeg run leaves at the output path
Leftover(old) == {old, Partial}

\* ----------------------------------------------- VideoProcessor.createLoop
CreateLoop ==
    /\ impl = "js" /\ pc = "start"
    /\ \E exists \in BOOLEAN :
         IF exists
         THEN /\ pc' = Dispatch(Technique)
              /\ UNCHANGED <<error, outcome>>
         ELSE Reject("access")
    /\ UNCHANGED <<pair, outside, impl, req, src, ret, hasBc, duration, fps, calls, segments,
                   tempDir, tmpFiles, output>>

\* l.43-47: await fs.access(outputFile); return outputFile
CreateLoopVerify ==
    /\ impl = "js" /\ pc = "access_out"
    /\ IF output # NoFile
       THEN /\ outcome' = "done" /\ pc' = "end" /\ UNCHANGED error
       ELSE Reject("no_output")
    /\ UNCHANGED <<pair, outside, impl, req, src, ret, hasBc, duration, fps, calls, segments,
                   tempDir, tmpFiles, output>>

\* finally { await fs.rm(tempDir, {recursive, force}).catch(() => {}) }
\* The removal may fail; the failure is swallowed either way.
Cleanup ==
    /\ \E removed \in BOOLEAN :
         IF removed
         THEN tempDir' = "removed" /\ tmpFiles' = <<>>
         ELSE UNCHANGED <<tempDir, tmpFiles>>
    /\ IF error = "none"
       THEN /\ pc' = "access_out" /\ UNCHANGED <<error, outcome>>
       ELSE /\ pc' = "end" /\ outcome' = "failed" /\ UNCHANGED error

\* ----------------------------------------- VideoProcessor.createReverseLoop
ReverseMkdir ==
    /\ impl = "js" /\ pc = "rev_mkdir"
    /\ \E ok \in BOOLEAN :
         IF ok
         THEN /\ tempDir' = "present"
              /\ pc' = "rev_reverse"
              /\ UNCHANGED <<error, outcome>>
         ELSE Reject("mkdir") /\ UNCHANGED tempDir
    /\ UNCHANGED <<pair, outside, impl, req, src, ret, hasBc, duration, fps, calls, segments,
                   tmpFiles, output>>

ReverseExtract ==
    /\ impl = "js" /\ pc = "rev_reverse"
    /\ LET c == Call("reverse", "encode", ToEnd, ToEnd, "none", <<"input">>, "reverse.mp4")
       IN \E ok \in Results(c) :
            /\ Issue(c, ok)
            /\ IF ok
               THEN /\ tmpFiles' = ("reverse.mp4" :> ReverseClip(SrcClip)) @@ tmpFiles
                    /\ pc' = "rev_concat"
                    /\ UNCHANGED <<error, outcome>>
               ELSE Throw("ffmpeg", "rev_finally") /\ UNCHANGED tmpFiles
    /\ UNCHANGED <<pair, outside, impl, req, src, ret, hasBc, duration, fps, segments, tempDir, output>>

ReverseConcatInputsSwapped == <<"reverse.mp4", "input">>

\* l.81-86: -i inputFile -i reverseFile -filter_complex concat=n=2
ReverseConcatInputs == <<"input", "reverse.mp4">>

\* the clip a concat filter makes of its inputs
FilterConcat(ins, files) ==
    ConcatClips(ins, ("input" :> SrcClip) @@ files)

ReverseConcat ==
    /\ impl = "js" /\ pc = "rev_concat"
    /\ LET c == Call("concat_filter", "encode", ToEnd, ToEnd, "none",
                     ReverseConcatInputs, "output")
       IN \E ok \in Results(c) :
            /\ Issue(c, ok)
            /\ IF ok
               THEN /\ output' = FilterConcat(c.ins, tmpFiles)
                    /\ pc' = "rev_finally"
                    /\ UNCHANGED <<error, outcome>>
               ELSE /\ output' \in Leftover(output)
                    /\ Throw("ffmpeg", "rev_finally")
    /\ UNCHANGED <<pair, outside, impl, req, src, ret, hasBc, duration, fps, segments, tempDir, tmpFiles>>

ReverseFinally ==
    /\ impl = "js" /\ pc = "rev_finally"
    /\ Cleanup
    /\ UNCHANGED <<pair, outside, impl, req, src, ret, hasBc, duration, fps, calls, segments, output>>

\* ---------------------------------------------------------------- Prober
\* getVideoDuration: parseFloat(output.trim()); ffprobe prints the length of
\* the source, or a text that is not a number ("N/A")
ParseDuration(readable) == IF readable THEN src.len ELSE NaN

\* getVideoFPS: "num/den" is divided, anything else is parseFloat(..) || 30.
\* What ffprobe prints for r_frame_rate: a fraction, a plain number, the
\* fraction of an unknown rate, or nothing (no video stream).
FpsOutputs == {"30000/1001", "25", "0/0", ""}
ParseFps(out) ==
    CASE out = "30000/1001" -> "29.97"
      [] out = "0/0" -> "NaN"
      [] out = "25" -> "25"
      [] OTHER -> "30"

GetVideoDuration ==
    /\ impl = "js" /\ pc = "getVideoDuration"
    /\ \E ok \in BOOLEAN, readable \in BOOLEAN :
         IF ok
         THEN /\ duration' = ParseDuration(readable)
              /\ pc' = "getVideoFPS"
              /\ UNCHANGED <<error, outcome>>
         ELSE Reject("probe") /\ UNCHANGED duration
    /\ UNCHANGED <<pair, outside, impl, req, src, ret, hasBc, fps, calls, segments,
                   tempDir, tmpFiles, output>>

\* ---------------------------------- VideoProcessor.createCrossfadeLoop
fadeDuration == parseFloat(req.fadeDuration)
startSecond == parseFloat(req.startSecond)
endStartTimeTwoFades == JsSub(duration, 2 * fadeDuration)

endStartTime == JsSub(duration, fadeDuration)
mainDurationOneFade == JsSub(duration, fadeDuration)
mainDuration == JsSub(duration, 2 * fadeDuration)
seg1Duration == JsSub(endStartTime, startSecond)
seg3DurationNegated == JsSub(fadeDuration, startSecond)

seg3Duration == JsSub(startSecond, fadeDuration)

\* l.116-147: what createCrossfadeLoop awaits next once both probes are in
Validate(fade, start, d) ==
    IF JsGeHalf(fade, d) THEN "reject"
    ELSE IF JsIsZero(fade)
         THEN (IF JsIsZero(start) THEN "copyFile" ELSE "ro_mkdir")
         ELSE "cf_mkdir"

GetVideoFPS ==
    /\ impl = "js" /\ pc = "getVideoFPS"
    /\ \E ok \in BOOLEAN, out \in FpsOutputs :
         IF ok
         THEN /\ fps' = ParseFps(out)
              /\ LET to == Validate(fadeDuration, startSecond, duration)
                 IN IF to = "reject"
                    THEN Reject("validation")
                    ELSE pc' = to /\ UNCHANGED <<error, outcome>>
         ELSE Reject("probe") /\ UNCHANGED fps
    /\ UNCHANGED <<pair, outside, impl, req, src, ret, hasBc, duration, calls, segments,
                   tempDir, tmpFiles, output>>

\* l.129: await fs.copyFile(inputFile, outputFile)
CrossfadeCopy ==
    /\ impl = "js" /\ pc = "copyFile"
    /\ \E ok \in BOOLEAN :
         IF ok
         THEN /\ output' = SrcClip
              /\ pc' = "access_out"
              /\ UNCHANGED <<error, outcome>>
         ELSE Reject("copy") /\ UNCHANGED output
    /\ UNCHANGED <<pair, outside, impl, req, src, ret, hasBc, duration, fps, calls, segments,
                   tempDir, tmpFiles>>

CrossfadeMkdir ==
    /\ impl = "js" /\ pc = "cf_mkdir"
    /\ \E ok \in BOOLEAN :
         IF ok
         THEN /\ tempDir' = "present"
              /\ pc' = "cf_start"
              /\ UNCHANGED <<error, outcome>>
         ELSE Reject("mkdir") /\ UNCHANGED tempDir
    /\ UNCHANGED <<pair, outside, impl, req, src, ret, hasBc, duration, fps, calls, segments,
                   tmpFiles, output>>

ExtractStepUnchecked(name, ss, t, onOk) ==
    LET c == Call("extract", "encode", ss, t, fps, <<"input">>, name)
    IN \E ok \in Results(c) :
         /\ Issue(c, ok)
         /\ tmpFiles' = IF ok
                        THEN (name :> Extract(IF ss = ToEnd THEN 0 ELSE ss, t))
                                 @@ tmpFiles
                        ELSE tmpFiles
         /\ onOk
         /\ UNCHANGED <<error, outcome>>

\* one re-encoding extraction from the input (the body of l.157-172 etc.)
ExtractStep(name, ss, t, onOk) ==
    LET c == Call("extract", "encode", ss, t, fps, <<"input">>, name)
    IN \E ok \in Results(c) :
         /\ Issue(c, ok)
         /\ IF ok
            THEN /\ tmpFiles' = (name :> Extract(IF ss = ToEnd THEN 0 ELSE ss, t))
                                    @@ tmpFiles
                 /\ onOk
                 /\ UNCHANGED <<error, outcome>>
            ELSE /\ Throw("ffmpeg", "cf_finally")
                 /\ UNCHANGED <<tmpFiles, segments, ret>>

\* concatenateVideos l.354-359: the list file is written, then the copy
\* attempt is awaited
EnterConcat(list, finally) ==
    /\ segments' = list
    /\ ret' = finally
    /\ pc' = "cc_copy"

CrossfadeStartClip ==
    /\ impl = "js" /\ pc = "cf_start"
    /\ ExtractStep("start.mp4", ToEnd, parseFloat(req.fadeDuration),
                   pc' = "cf_end" /\ UNCHANGED <<segments, ret>>)
    /\ UNCHANGED <<pair, outside, impl, req, src, hasBc, duration, fps, tempDir, output>>

CrossfadeEndClip ==
    /\ impl = "js" /\ pc = "cf_end"
    /\ ExtractStep("end.mp4", endStartTime, ToEnd,
                   pc' = "cf_blend" /\ UNCHANGED <<segments, ret>>)
    /\ UNCHANGED <<pair, outside, impl, req, src, hasBc, duration, fps, tempDir, output>>

\* l.276-300 from segments.push(crossfadeClip) on
AfterCrossfadePush(list) ==
    IF JsGt(seg3Duration, 0)
    THEN pc' = "cf_seg3" /\ segments' = list /\ UNCHANGED ret
    ELSE EnterConcat(list, "cf_finally")

\* l.192-254: the blend, then the choice of what to extract next
CrossfadeBlend ==
    /\ impl = "js" /\ pc = "cf_blend"
    /\ LET c == Call("blend", "encode", 0, fadeDuration, fps,
                     <<"end.mp4", "start.mp4">>, "crossfade.mp4")
       IN \E ok \in Results(c) :
            /\ Issue(c, ok)
            /\ IF ok
               THEN /\ tmpFiles' = ("crossfade.mp4" :>
                          Blend(tmpFiles["end.mp4"], tmpFiles["start.mp4"], fadeDuration))
                          @@ tmpFiles
                    /\ IF JsIsZero(startSecond)
                       THEN pc' = "cf_main" /\ UNCHANGED <<segments, ret>>
                       ELSE IF JsGt(seg1Duration, 0)
                            THEN pc' = "cf_seg1" /\ UNCHANGED <<segments, ret>>
                            ELSE AfterCrossfadePush(<<"crossfade.mp4">>)
                    /\ UNCHANGED <<error, outcome>>
               ELSE /\ Throw("ffmpeg", "cf_finally")
                    /\ UNCHANGED <<tmpFiles, segments, ret>>
    /\ UNCHANGED <<pair, outside, impl, req, src, hasBc, duration, fps, tempDir, output>>

CrossfadeMainClip ==
    /\ impl = "js" /\ pc = "cf_main"
    /\ ExtractStep("main.mp4", fadeDuration, mainDuration,
                   EnterConcat(<<"main.mp4", "crossfade.mp4">>, "cf_finally"))
    /\ UNCHANGED <<pair, outside, impl, req, src, hasBc, duration, fps, tempDir, output>>

CrossfadeSeg1 ==
    /\ impl = "js" /\ pc = "cf_seg1"
    /\ ExtractStep("seg1.mp4", parseFloat(req.startSecond), seg1Duration,
                   AfterCrossfadePush(<<"seg1.mp4", "crossfade.mp4">>))
    /\ UNCHANGED <<pair, outside, impl, req, src, hasBc, duration, fps, tempDir, output>>

CrossfadeSeg3 ==
    /\ impl = "js" /\ pc = "cf_seg3"
    /\ ExtractStep("seg3.mp4", parseFloat(req.fadeDuration), seg3Duration,
                   EnterConcat(Append(segments, "seg3.mp4"), "cf_finally"))
    /\ UNCHANGED <<pair, outside, impl, req, src, hasBc, duration, fps, tempDir, output>>

CrossfadeFinally ==
    /\ impl = "js" /\ pc = "cf_finally"
    /\ Cleanup
    /\ UNCHANGED <<pair, outside, impl, req, src, ret, hasBc, duration, fps, calls, segments, output>>

\* ------------------------------------- VideoProcessor.concatenateVideos
\* l.365-402: try { copy } catch (error) { re-encode }: where an attempt in
\* the given mode leads
ConcatLadderNoRetry(mode, ok) ==
    IF ok THEN "return" ELSE "throw"

ConcatLadder(mode, ok) ==
    IF ok THEN "return"
    ELSE IF mode = "copy" THEN "retry" ELSE "throw"

ConcatAttempt(mode) ==
    LET c == Call("concat", mode, ToEnd, ToEnd, "none", segments, "output")
    IN \E ok \in Results(c) :
         /\ Issue(c, ok)
         /\ output' \in IF ok THEN {ConcatClips(segments, tmpFiles)}
                        ELSE Leftover(output)
         /\ LET to == ConcatLadder(mode, ok)
            IN CASE to = "return" -> pc' = ret /\ UNCHANGED <<error, outcome>>
                 [] to = "retry" -> pc' = "cc_reenc" /\ UNCHANGED <<error, outcome>>
                 [] OTHER -> Throw("ffmpeg", ret)

\* l.365-380: the stream-copy attempt
ConcatCopy ==
    /\ impl = "js" /\ pc = "cc_copy"
    /\ ConcatAttempt("copy")
    /\ UNCHANGED <<pair, outside, impl, req, src, ret, hasBc, duration, fps, segments,
                   tempDir, tmpFiles>>

\* l.381-402: the re-encoding attempt of the catch block
ConcatReencode ==
    /\ impl = "js" /\ pc = "cc_reenc"
    /\ ConcatAttempt("encode")
    /\ UNCHANGED <<pair, outside, impl, req, src, ret, hasBc, duration, fps, segments,
                   tempDir, tmpFiles>>

\* ---------------------------------------- VideoProcessor.reorderSegments
ReorderMkdir ==
    /\ impl = "js" /\ pc = "ro_mkdir"
    /\ \E ok \in BOOLEAN :
         IF ok
         THEN /\ tempDir' = "present"
              /\ pc' = "ro_after"
              /\ UNCHANGED <<error, outcome>>
         ELSE Reject("mkdir") /\ UNCHANGED tempDir
    /\ UNCHANGED <<pair, outside, impl, req, src, ret, hasBc, duration, fps, calls, segments,
                   tmpFiles, output>>

\* one stream-copy extraction from the input (l.320-329, l.332-341)
CopyStep(name, ss, t, finally, onOk) ==
    LET c == Call("extract", "copy", ss, t, "none", <<"input">>, name)
    IN \E ok \in Results(c) :
         /\ Issue(c, ok)
         /\ IF ok
            THEN /\ tmpFiles' = (name :> Extract(IF ss = ToEnd THEN 0 ELSE ss, t))
                                    @@ tmpFiles
                 /\ onOk
                 /\ UNCHANGED <<error, outcome>>
            ELSE /\ Throw("ffmpeg", finally)
                 /\ UNCHANGED <<tmpFiles, segments, ret>>

ReorderListSwapped == <<"before.mp4", "after.mp4">>

\* l.343-347: the clips handed to concatenateVideos
ReorderList == <<"after.mp4", "before.mp4">>

\* -ss startSecond -c copy
ReorderAfter ==
    /\ impl = "js" /\ pc = "ro_after"
    /\ CopyStep("after.mp4", parseFloat(req.startSecond), ToEnd, "ro_finally",
                pc' = "ro_before" /\ UNCHANGED <<segments, ret>>)
    /\ UNCHANGED <<pair, outside, impl, req, src, hasBc, duration, fps, tempDir, output>>

\* -to startSecond -c copy
ReorderBefore ==
    /\ impl = "js" /\ pc = "ro_before"
    /\ CopyStep("before.mp4", ToEnd, parseFloat(req.startSecond), "ro_finally",
                EnterConcat(ReorderList, "ro_finally"))
    /\ UNCHANGED <<pair, outside, impl, req, src, hasBc, duration, fps, tempDir, output>>

ReorderFinally ==
    /\ impl = "js" /\ pc = "ro_finally"
    /\ Cleanup
    /\ UNCHANGED <<pair, outside, impl, req, src, ret, hasBc, duration, fps, calls, segments, output>>

\* ======================================================= loop-maker.sh
\* The script runs under `set -e`: a command that fails outside an `if`
\* condition ends the script at once with a non-zero status, and the EXIT
\* trap (set at l.151, after mkdir) removes the workspace.  The
\* `if [ $? -ne 0 ]` lines that follow the ffmpeg commands are therefore
\* never reached with a non-zero status.

\* TECHNIQUE="${2:-reverse}"; the HTTP wrapper passes the normalised value
ShTechnique ==
    LET arg == IF req.viaHttp THEN NormaliseTechnique(req.technique)
               ELSE req.technique
    IN IF arg = Missing \/ arg = "" THEN "reverse" ELSE arg

\* case "$TECHNIQUE" in "crossfade") ... ;; "reverse"|*) ... ;; esac
ShCase(technique) ==
    IF technique = "crossfade" THEN "sh_probe_duration" ELSE "sh_reverse"

\* the value bc gives a text: a word that is not a number is an unset
\* variable, which bc reads as 0
BcVal(t) == IF t.kind = "junk" THEN 0 ELSE t.val
\* the value ffmpeg gives a time option
FfTime(t) == IF t.kind = "junk" THEN NaN ELSE t.val

\* `(( $(echo "$FADE_DURATION == 0" | bc -l) ))`.  Without bc the stub of
\* l.64-109 is called with the argument -l, takes it for its input, finds a
\* "-" in it and prints 1.
ShIsZeroFade(bc, fade) == IF bc THEN BcVal(fade) = 0 ELSE TRUE

\* l.213-268: what the crossfade branch runs next once both probes are in
ShValidate(bc, fade, start, d) ==
    IF ShIsZeroFade(bc, fade)
    THEN (IF start = Num(0) THEN "sh_cp" ELSE "sh_ro_after")
    ELSE IF 2 * BcVal(fade) >= d \/ BcVal(fade) <= 0
         THEN "reject"
         ELSE "sh_cf_start"

\* VIDEO_FPS=$(echo "scale=2; $VIDEO_FPS_FRAC" | bc 2>/dev/null || echo "30")
ShParseFps(bc, out) ==
    IF bc THEN ParseFps(out)
    ELSE IF out = "25" THEN "25" ELSE "30"

\* leave the script: the EXIT trap runs next
ShExit(why) ==
    /\ error' = why
    /\ pc' = "sh_trap"

\* l.128-147: argument and input checks, check_dependencies
ShStart ==
    /\ impl = "sh" /\ pc = "start"
    /\ \E exists \in BOOLEAN, bc \in BOOLEAN :
         IF exists
         THEN /\ hasBc' = bc
              /\ pc' = "sh_mkdir"
              /\ UNCHANGED <<error, outcome>>
         ELSE /\ error' = "access" /\ outcome' = "failed" /\ pc' = "end"
              /\ UNCHANGED hasBc
    /\ UNCHANGED <<pair, outside, impl, req, src, ret, duration, fps, calls, segments,
                   tempDir, tmpFiles, output>>

\* l.150-151: mkdir -p "$TEMP_DIR"; trap 'rm -rf "$TEMP_DIR"' EXIT
ShMkdir ==
    /\ impl = "sh" /\ pc = "sh_mkdir"
    /\ \E ok \in BOOLEAN :
         IF ok
         THEN /\ tempDir' = "present"
              /\ pc' = "sh_analyze"
              /\ UNCHANGED <<error, outcome>>
         ELSE /\ error' = "mkdir" /\ outcome' = "failed" /\ pc' = "end"
              /\ UNCHANGED tempDir
    /\ UNCHANGED <<pair, outside, impl, req, src, ret, hasBc, duration, fps, calls, segments,
                   tmpFiles, output>>

\* l.173-197: the first duration probe, then the case on the technique
ShAnalyze ==
    /\ impl = "sh" /\ pc = "sh_analyze"
    /\ \E ok \in BOOLEAN :
         pc' = IF ok THEN ShCase(ShTechnique) ELSE "sh_simple_reverse"
    /\ UNCHANGED <<pair, outside, impl, req, src, ret, hasBc, duration, fps, calls, segments,
                   tempDir, tmpFiles, output, error, outcome>>

\* an ffmpeg command at the top level of the script, writing into TEMP_DIR
ShStep(c, clip, onOk) ==
    \E ok \in Results(c) :
       /\ Issue(c, ok)
       /\ IF ok
          THEN /\ tmpFiles' = (c.out :> clip) @@ tmpFiles
               /\ onOk
               /\ UNCHANGED error
          ELSE /\ ShExit("ffmpeg")
               /\ UNCHANGED <<tmpFiles, segments>>

\* an ffmpeg command at the top level of the script, writing the output
ShFinalStep(c, clip, to) ==
    \E ok \in Results(c) :
       /\ Issue(c, ok)
       /\ IF ok
          THEN /\ output' = clip
               /\ pc' = to
               /\ UNCHANGED error
          ELSE /\ output' \in Leftover(output)
               /\ ShExit("ffmpeg")

\* create_simple_loop (l.157-169), then exit 0
ShSimpleReverse ==
    /\ impl = "sh" /\ pc = "sh_simple_reverse"
    /\ ShStep(Call("reverse", "encode", ToEnd, ToEnd, "none", <<"input">>, "reverse.mp4"),
              ReverseClip(SrcClip),
              pc' = "sh_simple_concat" /\ UNCHANGED segments)
    /\ UNCHANGED <<pair, outside, impl, req, src, ret, hasBc, duration, fps, tempDir, output, outcome>>

ShSimpleConcat ==
    /\ impl = "sh" /\ pc = "sh_simple_concat"
    /\ ShFinalStep(Call("concat_filter", "encode", ToEnd, ToEnd, "none",
                        <<"input", "reverse.mp4">>, "output"),
                   SrcClip \o tmpFiles["reverse.mp4"], "sh_trap")
    /\ UNCHANGED <<pair, outside, impl, req, src, ret, hasBc, duration, fps, segments,
                   tempDir, tmpFiles, outcome>>

\* l.204-205: ORIGINAL_DURATION
ShProbeDuration ==
    /\ impl = "sh" /\ pc = "sh_probe_duration"
    /\ \E ok \in BOOLEAN, empty \in BOOLEAN :
         IF ok /\ ~empty
         THEN /\ duration' = src.len
              /\ pc' = "sh_probe_fps"
              /\ UNCHANGED error
         ELSE ShExit("probe") /\ UNCHANGED duration
    /\ UNCHANGED <<pair, outside, impl, req, src, ret, hasBc, fps, calls, segments,
                   tempDir, tmpFiles, output, outcome>>

\* l.206-268: VIDEO_FPS, then the zero-fade test and the validation
ShProbeFps ==
    /\ impl = "sh" /\ pc = "sh_probe_fps"
    /\ \E ok \in BOOLEAN, out \in FpsOutputs :
         IF ok /\ out # ""
         THEN /\ fps' = ShParseFps(hasBc, out)
              /\ LET to == ShValidate(hasBc, req.fadeDuration, req.startSecond, duration)
                 IN IF to = "reject"
                    THEN ShExit("validation")
                    ELSE pc' = to /\ UNCHANGED error
         ELSE ShExit("probe") /\ UNCHANGED fps
    /\ UNCHANGED <<pair, outside, impl, req, src, ret, hasBc, duration, calls, segments,
                   tempDir, tmpFiles, output, outcome>>

\* l.218: cp "$INPUT_FILE" "$ABS_OUTPUT_FILE"
ShZeroCopy ==
    /\ impl = "sh" /\ pc = "sh_cp"
    /\ \E ok \in BOOLEAN :
         IF ok
         THEN output' = SrcClip /\ pc' = "sh_verify" /\ UNCHANGED error
         ELSE ShExit("copy") /\ UNCHANGED output
    /\ UNCHANGED <<pair, outside, impl, req, src, ret, hasBc, duration, fps, calls, segments,
                   tempDir, tmpFiles, outcome>>

\* l.234: -ss $START_SECOND -c copy
ShReorderAfter ==
    /\ impl = "sh" /\ pc = "sh_ro_after"
    /\ ShStep(Call("extract", "copy", FfTime(req.startSecond), ToEnd, "none",
                   <<"input">>, "after_start_nofade.mp4"),
              Extract(FfTime(req.startSecond), ToEnd),
              pc' = "sh_ro_before" /\ UNCHANGED segments)
    /\ UNCHANGED <<pair, outside, impl, req, src, ret, hasBc, duration, fps, tempDir, output, outcome>>

\* l.239-246: -to $START_SECOND -c copy, then the list is written
ShReorderBefore ==
    /\ impl = "sh" /\ pc = "sh_ro_before"
    /\ ShStep(Call("extract", "copy", ToEnd, FfTime(req.startSecond), "none",
                   <<"input">>, "before_start_nofade.mp4"),
              Extract(0, FfTime(req.startSecond)),
              /\ pc' = "sh_ro_concat"
              /\ segments' = <<"after_start_nofade.mp4", "before_start_nofade.mp4">>)
    /\ UNCHANGED <<pair, outside, impl, req, src, ret, hasBc, duration, fps, tempDir, output, outcome>>

\* l.251: concat demuxer with -c copy; there is no second attempt here
ShReorderConcat ==
    /\ impl = "sh" /\ pc = "sh_ro_concat"
    /\ ShFinalStep(Call("concat", "copy", ToEnd, ToEnd, "none", segments, "output"),
                   ConcatClips(segments, tmpFiles), "sh_verify")
    /\ UNCHANGED <<pair, outside, impl, req, src, ret, hasBc, duration, fps, segments,
                   tempDir, tmpFiles, outcome>>

\* l.278-279, 312, 333, 357: the bc subtractions of the crossfade branch
ShEndClipStart == duration - BcVal(req.fadeDuration)
ShMainDuration == duration - 2 * BcVal(req.fadeDuration)
ShSeg1Duration == ShEndClipStart - BcVal(req.startSecond)
ShSeg3Duration == BcVal(req.startSecond) - BcVal(req.fadeDuration)

\* l.282: -t $FADE_DURATION_FMT
ShStartClip ==
    /\ impl = "sh" /\ pc = "sh_cf_start"
    /\ ShStep(Call("extract", "encode", ToEnd, BcVal(req.fadeDuration), fps,
                   <<"input">>, "true_start.mp4"),
              Extract(0, BcVal(req.fadeDuration)),
              pc' = "sh_cf_end" /\ UNCHANGED segments)
    /\ UNCHANGED <<pair, outside, impl, req, src, ret, hasBc, duration, fps, tempDir, output, outcome>>

\* l.286: -ss $END_CLIP_START_TIME
ShEndClip ==
    /\ impl = "sh" /\ pc = "sh_cf_end"
    /\ ShStep(Call("extract", "encode", ShEndClipStart, ToEnd, fps,
                   <<"input">>, "true_end.mp4"),
              Extract(ShEndClipStart, ToEnd),
              pc' = "sh_cf_blend" /\ UNCHANGED segments)
    /\ UNCHANGED <<pair, outside, impl, req, src, ret, hasBc, duration, fps, tempDir, output, outcome>>

\* l.346-368 from the crossfade line of the list on
ShAfterCrossfadeLine(list) ==
    /\ segments' = list
    /\ pc' = IF ShSeg3Duration > 0 THEN "sh_cf_seg3" ELSE "sh_cf_concat"

\* l.293-336: the blend, then the choice of what to extract next
ShBlend ==
    /\ impl = "sh" /\ pc = "sh_cf_blend"
    /\ ShStep(Call("blend", "encode", 0, BcVal(req.fadeDuration), fps,
                   <<"true_end.mp4", "true_start.mp4">>, "crossfade_segment.mp4"),
              Blend(tmpFiles["true_end.mp4"], tmpFiles["true_start.mp4"],
                    BcVal(req.fadeDuration)),
              IF req.startSecond = Num(0)
              THEN pc' = "sh_cf_main" /\ UNCHANGED segments
              ELSE IF ShSeg1Duration > 0
                   THEN pc' = "sh_cf_seg1" /\ UNCHANGED segments
                   ELSE ShAfterCrossfadeLine(<<"crossfade_segment.mp4">>))
    /\ UNCHANGED <<pair, outside, impl, req, src, ret, hasBc, duration, fps, tempDir, output, outcome>>

\* l.315-320
ShMainClip ==
    /\ impl = "sh" /\ pc = "sh_cf_main"
    /\ ShStep(Call("extract", "encode", BcVal(req.fadeDuration), ShMainDuration, fps,
                   <<"input">>, "main_body.mp4"),
              Extract(BcVal(req.fadeDuration), ShMainDuration),
              /\ pc' = "sh_cf_concat"
              /\ segments' = <<"main_body.mp4", "crossfade_segment.mp4">>)
    /\ UNCHANGED <<pair, outside, impl, req, src, ret, hasBc, duration, fps, tempDir, output, outcome>>

\* l.338-341: -ss $SEG1_START_TIME -t $SEG1_DURATION
ShSeg1 ==
    /\ impl = "sh" /\ pc = "sh_cf_seg1"
    /\ ShStep(Call("extract", "encode", FfTime(req.startSecond), ShSeg1Duration, fps,
                   <<"input">>, "seg1_after_start.mp4"),
              Extract(FfTime(req.startSecond), ShSeg1Duration),
              ShAfterCrossfadeLine(<<"seg1_after_start.mp4", "crossfade_segment.mp4">>))
    /\ UNCHANGED <<pair, outside, impl, req, src, ret, hasBc, duration, fps, tempDir, output, outcome>>

\* l.362-365: -ss $SEG3_START_TIME -t $SEG3_DURATION
ShSeg3 ==
    /\ impl = "sh" /\ pc = "sh_cf_seg3"
    /\ ShStep(Call("extract", "encode", BcVal(req.fadeDuration), ShSeg3Duration, fps,
                   <<"input">>, "seg3_before_start.mp4"),
              Extract(BcVal(req.fadeDuration), ShSeg3Duration),
              /\ pc' = "sh_cf_concat"
              /\ segments' = Append(segments, "seg3_before_start.mp4"))
    /\ UNCHANGED <<pair, outside, impl, req, src, ret, hasBc, duration, fps, tempDir, output, outcome>>

\* l.377: the stream-copy concatenation.  It is a plain command, so under
\* set -e its failure ends the script; the retry of l.378-382 never runs.
ShConcat ==
    /\ impl = "sh" /\ pc = "sh_cf_concat"
    /\ ShFinalStep(Call("concat", "copy", ToEnd, ToEnd, "none", segments, "output"),
                   ConcatClips(segments, tmpFiles), "sh_verify")
    /\ UNCHANGED <<pair, outside, impl, req, src, ret, hasBc, duration, fps, segments,
                   tempDir, tmpFiles, outcome>>

\* cp "$INPUT_FILE" "$OUTPUT_FILE" as a fallback
ShFallbackCopy(to) ==
    \E cp \in BOOLEAN :
       IF cp
       THEN output' = SrcClip /\ pc' = to /\ UNCHANGED error
       ELSE ShExit("copy") /\ UNCHANGED output

\* l.389-394: if ! ffmpeg -vf reverse; then cp; exit 0; fi
ShReverse ==
    /\ impl = "sh" /\ pc = "sh_reverse"
    /\ LET c == Call("reverse", "encode", ToEnd, ToEnd, "none", <<"input">>, "reverse.mp4")
       IN \E ok \in Results(c) :
            /\ Issue(c, ok)
            /\ IF ok
               THEN /\ tmpFiles' = ("reverse.mp4" :> ReverseClip(SrcClip)) @@ tmpFiles
                    /\ pc' = "sh_rev_concat"
                    /\ UNCHANGED <<error, output>>
               ELSE /\ ShFallbackCopy("sh_trap")
                    /\ UNCHANGED tmpFiles
    /\ UNCHANGED <<pair, outside, impl, req, src, ret, hasBc, duration, fps, segments, tempDir, outcome>>

\* l.397-403: if ! ffmpeg concat; then cp; fi
ShReverseConcat ==
    /\ impl = "sh" /\ pc = "sh_rev_concat"
    /\ LET c == Call("concat_filter", "encode", ToEnd, ToEnd, "none",
                     <<"input", "reverse.mp4">>, "output")
       IN \E ok \in Results(c) :
            /\ Issue(c, ok)
            /\ IF ok
               THEN /\ output' = SrcClip \o tmpFiles["reverse.mp4"]
                    /\ pc' = "sh_verify"
                    /\ UNCHANGED error
               ELSE ShFallbackCopy("sh_verify")
    /\ UNCHANGED <<pair, outside, impl, req, src, ret, hasBc, duration, fps, segments,
                   tempDir, tmpFiles, outcome>>

\* l.408-419: the output check and the last-resort copy
ShVerify ==
    /\ impl = "sh" /\ pc = "sh_verify"
    /\ IF output # NoFile
       THEN pc' = "sh_trap" /\ UNCHANGED <<error, output>>
       ELSE ShFallbackCopy("sh_trap")
    /\ UNCHANGED <<pair, outside, impl, req, src, ret, hasBc, duration, fps, calls, segments,
                   tempDir, tmpFiles, outcome>>

\* trap 'rm -rf "$TEMP_DIR"' EXIT: the exit status is the one of the script
ShTrap ==
    /\ impl = "sh" /\ pc = "sh_trap"
    /\ \E removed \in BOOLEAN :
         IF removed
         THEN tempDir' = "removed" /\ tmpFiles' = <<>>
         ELSE UNCHANGED <<tempDir, tmpFiles>>
    /\ outcome' = IF error = "none" THEN "done" ELSE "failed"
    /\ pc' = "end"
    /\ UNCHANGED <<pair, outside, impl, req, src, ret, hasBc, duration, fps, calls, segments,
                   output, error>>

\* ============================================ concurrent invocations
\* server.ts l.63-67 awaits processor.createLoop(tmpIn, ...) once per
\* request, so several invocations are in flight in one process and
\* interleave at every await.  The specification Concurrent runs
\* MaxInvocations invocations of createLoop(inputFile) (technique "reverse")
\* against one file system and one clock.

\* an invocation's workspace: path.join(path.dirname(inputFile),
\* `tmp_loop_${Date.now()}`)
TempDirOf(inputFile, clock) == [dir |-> inputFile.dir, at |-> clock]

\* what ffmpeg -vf reverse writes when invocation p runs it on inputFile
Reversed(inputFile, p) == <<[of |-> inputFile, by |-> p]>>

\* what the concat filter writes to <inputFile>_loop.mp4
Looped(inputFile, reverseFile, p) ==
    <<[by |-> p, first |-> inputFile, second |-> reverseFile[1].of]>>

\* fs.mkdir(tempDir, {recursive: true}) resolves on a directory that exists
\* already and leaves its content alone
Mkdir(d) == [d EXCEPT !.exists = TRUE]

\* fs.rm(tempDir, {recursive: true, force: true})
Rm(d) == [exists |-> FALSE, reverse |-> <<>>]

Settle(p, why) ==
    inv' = [inv EXCEPT ![p].error = why, ![p].outcome = "failed", ![p].pc = "end"]

\* l.27-29 and l.57-61: fs.access(inputFile) resolves, then the workspace
\* path is computed from the clock and mkdir is awaited
CreateLoopP(p) ==
    /\ inv[p].pc = "start"
    /\ \E exists \in BOOLEAN :
         IF exists
         THEN inv' = [inv EXCEPT ![p].tempDir = TempDirOf(inv[p].inputFile, now),
                                 ![p].pc = "rev_mkdir"]
         ELSE Settle(p, "access")
    /\ UNCHANGED <<now, dirs, outs, vars, outside>>

ReverseMkdirP(p) ==
    /\ inv[p].pc = "rev_mkdir"
    /\ \E ok \in BOOLEAN :
         IF ok
         THEN /\ dirs' = [dirs EXCEPT ![inv[p].tempDir] = Mkdir(@)]
              /\ inv' = [inv EXCEPT ![p].pc = "rev_reverse"]
         ELSE Settle(p, "mkdir") /\ UNCHANGED dirs
    /\ UNCHANGED <<now, outs, vars, outside>>

\* l.67-78: ffmpeg -y -i inputFile -vf reverse tempDir/reverse.mp4; it cannot
\* write into a directory that is gone
ReverseExtractP(p) ==
    /\ inv[p].pc = "rev_reverse"
    /\ \E ok \in (IF dirs[inv[p].tempDir].exists THEN BOOLEAN ELSE {FALSE}) :
         IF ok
         THEN /\ dirs' = [dirs EXCEPT ![inv[p].tempDir].reverse =
                                          Reversed(inv[p].inputFile, p)]
              /\ inv' = [inv EXCEPT ![p].pc = "rev_concat"]
         ELSE /\ inv' = [inv EXCEPT ![p].error = "ffmpeg", ![p].pc = "rev_finally"]
              /\ UNCHANGED dirs
    /\ UNCHANGED <<now, outs, vars, outside>>

\* l.81-98: ffmpeg -y -i inputFile -i reverseFile ... outputFile; it cannot
\* read a reverse file that is gone
ReverseConcatP(p) ==
    /\ inv[p].pc = "rev_concat"
    /\ LET reverseFile == dirs[inv[p].tempDir].reverse
       IN \E ok \in (IF reverseFile # <<>> THEN BOOLEAN ELSE {FALSE}) :
            IF ok
            THEN /\ outs' = [outs EXCEPT ![inv[p].inputFile] =
                                Looped(inv[p].inputFile, reverseFile, p)]
                 /\ inv' = [inv EXCEPT ![p].pc = "rev_finally"]
            ELSE /\ inv' = [inv EXCEPT ![p].error = "ffmpeg", ![p].pc = "rev_finally"]
                 /\ UNCHANGED outs
    /\ UNCHANGED <<now, dirs, vars, outside>>

\* l.99-102: finally { await fs.rm(tempDir, ...).catch(() => {}) }
ReverseFinallyP(p) ==
    /\ inv[p].pc = "rev_finally"
    /\ \E removed \in BOOLEAN :
         dirs' = IF removed THEN [dirs EXCEPT ![inv[p].tempDir] = Rm(@)] ELSE dirs
    /\ inv' = IF inv[p].error = "none"
              THEN [inv EXCEPT ![p].pc = "access_out"]
              ELSE [inv EXCEPT ![p].pc = "end", ![p].outcome = "failed"]
    /\ UNCHANGED <<now, outs, vars, outside>>

\* l.43-47: await fs.access(outputFile); return outputFile
CreateLoopVerifyP(p) ==
    /\ inv[p].pc = "access_out"
    /\ IF outs[inv[p].inputFile] # <<>>
       THEN inv' = [inv EXCEPT ![p].pc = "end", ![p].outcome = "done"]
       ELSE Settle(p, "no_output")
    /\ UNCHANGED <<now, dirs, outs, vars, outside>>

\* the clock advances between any two steps
Tick ==
    /\ now < MaxClock
    /\ now' = now + 1
    /\ UNCHANGED <<inv, dirs, outs, vars, outside>>

\* ------------------------------------------------- a caller that gives up
\* createLoop takes no signal and runCommand sets no timeout and keeps no
\* handle to kill: a caller that cancels or times out changes nothing the
\* invocation reads.  The moment is recorded to say what happened after it.
Cancel ==
    /\ outcome = "running"
    /\ cancelled = NotCancelled
    /\ cancelled' = Len(calls)
    /\ UNCHANGED <<vars, pair, http, uploader>>

\* ------------------------------------------------- POST /api/loop handlers
HeadersSentNever == FALSE

\* res.headersSent
HeadersSent == responses # <<>>

Respond(code, type) == responses' = Append(responses, Response(code, type))

\* upload.single("video"): multer with dest "tmp/uploads" (server.ts l.21)
\* writes the file to disk and passes a failure to the error handler of
\* l.131-134; with memoryStorage (serverless) nothing is written
Upload ==
    /\ hpc = "upload"
    /\ IF post.hasFile /\ variant = "server"
       THEN \E saved \in BOOLEAN :
              IF saved
              THEN /\ tmp' = [tmp EXCEPT !.tmpIn = "present"]
                   /\ effects' = Append(effects, Effect("save", "tmpIn", TRUE))
                   /\ hpc' = "handler"
                   /\ UNCHANGED responses
              ELSE /\ Respond(500, "application/json")
                   /\ hpc' = "done"
                   /\ UNCHANGED <<tmp, effects>>
       ELSE /\ hpc' = "handler"
            /\ UNCHANGED <<tmp, effects, responses>>
    /\ UNCHANGED <<vars, pair, cancelled, uploader, variant, post, derr>>

HasFileAlways(r) == TRUE

\* req.file
HasFile(r) == r.hasFile

\* if (!req.file) { res.status(400).json(...); return; }
Handler ==
    /\ hpc = "handler"
    /\ IF ~HasFile(post)
       THEN Respond(400, "application/json") /\ hpc' = "done"
       ELSE /\ hpc' = IF variant = "server" THEN "createLoop" ELSE "mkdir"
            /\ UNCHANGED responses
    /\ UNCHANGED <<vars, pair, cancelled, uploader, variant, post, tmp, effects, derr>>

\* await processor.createLoop(tmpIn, technique, ...) / createReverseLoop /
\* createCrossfadeLoop: resolves or rejects; the handler checks for the
\* output itself afterwards, whatever the processor did
Process(onResolve, onReject) ==
    \E resolved \in BOOLEAN, out \in {"absent", "present"} :
       /\ effects' = Append(effects,
              Effect("createLoop", NormaliseTechnique(post.technique), resolved))
       /\ tmp' = [tmp EXCEPT !.tmpOut = out]
       /\ hpc' = IF resolved THEN onResolve ELSE onReject

ServerCreateLoop ==
    /\ variant = "server" /\ hpc = "createLoop"
    /\ Process("access", "catch")
    /\ UNCHANGED <<vars, pair, cancelled, uploader, variant, post, responses, derr>>

\* l.69-78: await fs.access(tmpOut), else throw
ServerAccess ==
    /\ variant = "server" /\ hpc = "access"
    /\ hpc' = IF tmp.tmpOut = "present" THEN "download" ELSE "catch"
    /\ UNCHANGED <<vars, pair, cancelled, uploader, variant, post, tmp, effects,
                   responses, derr>>

\* res.download(tmpOut, name, callback): the transfer fails before anything
\* was sent ("early"), breaks off after the headers ("late"), or completes
ServerDownload ==
    /\ variant = "server" /\ hpc = "download"
    /\ \E err \in {"none", "early", "late"} :
         /\ derr' = err
         /\ IF err = "early" THEN UNCHANGED responses ELSE Respond(200, "video/mp4")
         /\ effects' = Append(effects, Effect("download", "tmpOut", err = "none"))
    /\ hpc' = "callback"
    /\ UNCHANGED <<vars, pair, cancelled, uploader, variant, post, tmp>>

\* fs.unlink(path): removes the file if it is there and the call succeeds
Unlink(fs, name, ok) ==
    IF ok /\ fs[name] = "present" THEN [fs EXCEPT ![name] = "removed"] ELSE fs

UnlinkNeither == UNCHANGED <<tmp, effects>>

\* Promise.all([fs.unlink(tmpIn).catch(..), fs.unlink(tmpOut).catch(..)])
UnlinkBoth ==
    \E okIn, okOut \in BOOLEAN :
       /\ tmp' = Unlink(Unlink(tmp, "tmpIn", okIn), "tmpOut", okOut)
       /\ effects' = effects \o
              << Effect("unlink", "tmpIn", okIn /\ tmp.tmpIn = "present"),
                 Effect("unlink", "tmpOut", okOut /\ tmp.tmpOut = "present") >>

\* l.84-105: the callback of res.download
ServerCallback ==
    /\ variant = "server" /\ hpc = "callback"
    /\ UnlinkBoth
    /\ IF derr # "none" /\ ~HeadersSent
       THEN Respond(500, "application/json")
       ELSE UNCHANGED responses
    /\ hpc' = "done"
    /\ UNCHANGED <<vars, pair, cancelled, uploader, variant, post, derr>>

\* l.107-126: catch (e)
ServerCatch ==
    /\ variant = "server" /\ hpc = "catch"
    /\ UnlinkBoth
    /\ Respond(500, "application/json")
    /\ hpc' = "done"
    /\ UNCHANGED <<vars, pair, cancelled, uploader, variant, post, derr>>

\* a synchronous fs call inside the try block of the serverless handler
FsStep(op, on, to) ==
    \E ok \in BOOLEAN :
       /\ effects' = Append(effects, Effect(op, on, ok))
       /\ IF ok
          THEN tmp' = [tmp EXCEPT ![on] = "present"] /\ hpc' = to
          ELSE UNCHANGED tmp /\ hpc' = "sl_catch"

\* fs.mkdirSync(tempDir, { recursive: true })
SlMkdir ==
    /\ variant = "serverless" /\ hpc = "mkdir"
    /\ FsStep("mkdir", "tempDir", "write")
    /\ UNCHANGED <<vars, pair, cancelled, uploader, variant, post, responses, derr>>

\* fs.writeFileSync(inputPath, req.file.buffer)
SlWrite ==
    /\ variant = "serverless" /\ hpc = "write"
    /\ FsStep("write", "tmpIn", "process")
    /\ UNCHANGED <<vars, pair, cancelled, uploader, variant, post, responses, derr>>

SlProcess ==
    /\ variant = "serverless" /\ hpc = "process"
    /\ Process("exists", "sl_catch")
    /\ UNCHANGED <<vars, pair, cancelled, uploader, variant, post, responses, derr>>

\* if (!fs.existsSync(outputPath)) throw
SlExists ==
    /\ variant = "serverless" /\ hpc = "exists"
    /\ hpc' = IF tmp.tmpOut = "present" THEN "send" ELSE "sl_catch"
    /\ UNCHANGED <<vars, pair, cancelled, uploader, variant, post, tmp, effects,
                   responses, derr>>

\* setHeader("Content-Type", "video/mp4"); readFileSync; res.send(fileData)
SlSend ==
    /\ variant = "serverless" /\ hpc = "send"
    /\ \E read \in BOOLEAN :
         /\ effects' = Append(effects, Effect("read", "tmpOut", read))
         /\ IF read
            THEN Respond(200, "video/mp4") /\ hpc' = "cleanup"
            ELSE UNCHANGED responses /\ hpc' = "sl_catch"
    /\ UNCHANGED <<vars, pair, cancelled, uploader, variant, post, tmp, derr>>

\* try { unlinkSync(inputPath); unlinkSync(outputPath); rmdirSync(tempDir) }
\* catch (e) { console.error }: the first call that throws ends the block
SlCleanup ==
    /\ variant = "serverless" /\ hpc = "cleanup"
    /\ \E n \in 0..3 :
         LET order == <<"tmpIn", "tmpOut", "tempDir">>
             ops == <<"unlink", "unlink", "rmdir">>
             tried == IF n = 3 THEN 3 ELSE n + 1
         IN /\ tmp' = [f \in DOMAIN tmp |->
                          IF \E k \in 1..n : order[k] = f THEN "removed" ELSE tmp[f]]
            /\ effects' = effects \o
                   [k \in 1..tried |-> Effect(ops[k], order[k], k <= n)]
    /\ hpc' = "done"
    /\ UNCHANGED <<vars, pair, cancelled, uploader, variant, post, responses, derr>>

\* catch (error) { res.status(500).json(...) }
SlCatch ==
    /\ variant = "serverless" /\ hpc = "sl_catch"
    /\ Respond(500, "application/json")
    /\ hpc' = "done"
    /\ UNCHANGED <<vars, pair, cancelled, uploader, variant, post, tmp, effects, derr>>

\* ----------------------------------------------------- LoopMakerUploader
ButtonDisabledWithoutFile == file = NoFileChosen

ButtonDisabledNever == FALSE

\* <button onClick={submit} disabled={!file || busy}>
ButtonDisabled == file = NoFileChosen \/ busy

\* pick: if (e.target.files?.length) setFile(e.target.files[0]); the file
\* input is never disabled
Pick ==
    /\ \E f \in Files \cup {NoFileChosen} :
         file' = IF f = NoFileChosen THEN file ELSE f
    /\ UNCHANGED <<vars, pair, cancelled, http, busy, status, techniqueSel,
                   fadeInput, startInput, subs, submits, fetches>>

\* <select disabled={busy} onChange={handleTechniqueChange}>
HandleTechniqueChange ==
    /\ ~busy
    /\ \E t \in TECHNIQUES : techniqueSel' = t
    /\ UNCHANGED <<vars, pair, cancelled, http, file, busy, status, fadeInput,
                   startInput, subs, submits, fetches>>

\* the number inputs exist only while technique === "crossfade" and are
\* disabled while busy
HandleFadeDurationChange ==
    /\ ~busy /\ techniqueSel = "crossfade"
    /\ \E v \in FadeInputs : fadeInput' = v
    /\ UNCHANGED <<vars, pair, cancelled, http, file, busy, status, techniqueSel,
                   startInput, subs, submits, fetches>>

HandleStartSecondChange ==
    /\ ~busy /\ techniqueSel = "crossfade"
    /\ \E v \in StartInputs : startInput' = v
    /\ UNCHANGED <<vars, pair, cancelled, http, file, busy, status, techniqueSel,
                   fadeInput, subs, submits, fetches>>

\* l.54-62: the FormData of the request
Form ==
    [video |-> file, technique |-> techniqueSel,
     fade_duration |-> IF techniqueSel = "crossfade" THEN fadeInput ELSE Missing,
     start_second |-> IF techniqueSel = "crossfade" THEN startInput ELSE Missing]

\* submit() up to the fetch: called by a click on the enabled button, or
\* called while nothing is chosen (l.50)
Submit ==
    /\ submits < MaxSubmits
    /\ ~ButtonDisabled \/ file = NoFileChosen
    /\ submits' = submits + 1
    /\ IF file = NoFileChosen
       THEN UNCHANGED <<busy, status, subs, fetches>>
       ELSE /\ busy' = TRUE
            /\ status' = "Uploading and processing"
            /\ subs' = Append(subs, [at |-> "fetch", form |-> Form])
            /\ fetches' = fetches + 1
    /\ UNCHANGED <<vars, pair, cancelled, http, file, techniqueSel, fadeInput,
                   startInput>>

FinishStillBusy(i, msg) ==
    /\ status' = msg
    /\ busy' = (msg = "error")
    /\ subs' = [k \in 1..(Len(subs) - 1) |-> IF k < i THEN subs[k] ELSE subs[k + 1]]

\* the rest of submit() once its last await is over: setMsg(...), then
\* finally { setBusy(false) }
Finish(i, msg) ==
    /\ status' = msg
    /\ busy' = FALSE
    /\ subs' = [k \in 1..(Len(subs) - 1) |-> IF k < i THEN subs[k] ELSE subs[k + 1]]

\* await fetch("/api/loop", ...): a response that is ok, one that is not, or
\* a rejection
FetchSettles(i) ==
    /\ subs[i].at = "fetch"
    /\ \E r \in {"ok", "not ok", "throws"} :
         CASE r = "ok" -> /\ subs' = [subs EXCEPT ![i].at = "blob"]
                          /\ UNCHANGED <<busy, status>>
           [] r = "not ok" -> /\ subs' = [subs EXCEPT ![i].at = "json"]
                              /\ UNCHANGED <<busy, status>>
           [] OTHER -> Finish(i, "error")
    /\ UNCHANGED <<vars, pair, cancelled, http, file, techniqueSel, fadeInput,
                   startInput, submits, fetches>>

\* l.68-69: const { error } = await res.json(); throw new Error(...)
ResJson(i) ==
    /\ subs[i].at = "json"
    /\ Finish(i, "error")
    /\ UNCHANGED <<vars, pair, cancelled, http, file, techniqueSel, fadeInput,
                   startInput, submits, fetches>>

\* l.72-80: await res.blob(), then the download link and the Done message
ResBlob(i) ==
    /\ subs[i].at = "blob"
    /\ \E ok \in BOOLEAN : Finish(i, IF ok THEN "done" ELSE "error")
    /\ UNCHANGED <<vars, pair, cancelled, http, file, techniqueSel, fadeInput,
                   startInput, submits, fetches>>

\* ------------------------- createCrossfadeLoop of the serverless app
\* The serverless planner replaces values by 0.5 s and by a quarter of the
\* duration, so its times are counted in quarters of a tick.
\* l.115: fadeDuration = parseFloat(fadeDuration) || 0.5
SlFadeDuration(text) ==
    LET f == parseFloat(text) IN IF f = NaN \/ f = 0 THEN 2 ELSE 4 * f

\* l.116: startSecond = parseFloat(startSecond) || 0
SlStartSecond(text) ==
    LET s == parseFloat(text) IN IF s = NaN \/ s = 0 THEN 0 ELSE 4 * s

\* l.152-154: if (fadeDuration >= videoDuration / 2) fadeDuration = videoDuration / 4
SlFadeUsed(text, d) ==
    IF 2 * SlFadeDuration(text) >= 4 * d THEN d ELSE SlFadeDuration(text)

\* l.216-369: the list written to concat.txt, as segments of the source
SlPlan(fadeText, startText, d) ==
    LET f == SlFadeUsed(fadeText, d)
        s == SlStartSecond(startText)
        D == 4 * d
        blend == [role |-> "CrossfadeBlend", start |-> 0, dur |-> f]
        main == [role |-> "MainBody", start |-> f, dur |-> D - 2 * f]
        seg1 == [role |-> "SegmentAfterStart", start |-> s, dur |-> D - f - s]
        seg3 == [role |-> "SegmentBeforeStart", start |-> f, dur |-> s - f]
    IN  IF s = 0 THEN <<main, blend>>
        ELSE IF s > f /\ s < D - f
             THEN (IF s - f > 0 THEN <<seg1, blend, seg3>> ELSE <<seg1, blend>>)
             ELSE <<blend>>

\* ================================================================ claims
\* ------------------------------------------------ vocabulary of the claims
IsNum(t) == t.kind # "junk"
IsCrossfadeRequest == req.technique = "crossfade"
ReqFade == req.fadeDuration.val
ReqStart == req.startSecond.val
NumericRequest == IsNum(req.fadeDuration) /\ IsNum(req.startSecond)
DurationKnown == duration # NotProbed /\ duration # NaN

Role(name) ==
    CASE name \in {"seg1.mp4", "seg1_after_start.mp4", "after.mp4",
                   "after_start_nofade.mp4"} -> "SegmentAfterStart"
      [] name \in {"seg3.mp4", "seg3_before_start.mp4", "before.mp4",
                   "before_start_nofade.mp4"} -> "SegmentBeforeStart"
      [] name \in {"crossfade.mp4", "crossfade_segment.mp4"} -> "CrossfadeBlend"
      [] name \in {"main.mp4", "main_body.mp4"} -> "MainBody"
      [] OTHER -> "none"

Seg(role, start, dur) == [role |-> role, start |-> start, dur |-> dur]

\* the segment a clip of the concat list stands for, read off the call that
\* made the clip
SegSpec(name) ==
    LET c == calls[CHOOSE i \in 1..Len(calls) : calls[i].out = name]
    IN Seg(Role(name), IF c.ss = ToEnd THEN 0 ELSE c.ss, c.t)

Plan == [i \in 1..Len(segments) |-> SegSpec(segments[i])]

ConcatCalls == SelectSeq(calls, LAMBDA c : c.op = "concat")
ConcatStarted == ConcatCalls # <<>>
Extracted(role) == \E i \in 1..Len(calls) : Role(calls[i].out) = role
Listed(role) == \E i \in 1..Len(segments) : Role(segments[i]) = role

\* C1: a Crossfade request with fadeDuration >= duration / 2 ends in an
\* error and has issued no ffmpeg call at all (VideoProcessor and
\* loop-maker.sh).
C1_LongFadeRejected ==
    (IsCrossfadeRequest /\ IsNum(req.fadeDuration) /\ DurationKnown
        /\ 2 * ReqFade >= duration)
    => /\ calls = <<>>
       /\ outcome # "done"
       /\ (fps # "unset" => error = "validation")

\* C2: once an invocation of VideoProcessor.createLoop has settled, no
\* workspace directory it created exists any more.
C2_WorkspaceGone ==
    (impl = "js" /\ outcome # "running") => tempDir # "present"

C4_ThreeSegments ==
    (IsCrossfadeRequest /\ NumericRequest /\ DurationKnown
        /\ ReqFade > 0 /\ ReqFade < ReqStart /\ ReqStart < duration - ReqFade
        /\ ConcatStarted)
    => /\ Plan = << Seg("SegmentAfterStart", ReqStart, duration - ReqFade - ReqStart),
                    Seg("CrossfadeBlend", 0, ReqFade),
                    Seg("SegmentBeforeStart", ReqFade, ReqStart - ReqFade) >>
       /\ \A i \in 1..Len(Plan) : Plan[i].dur > 0

\* C5: with 0 < fadeDuration < duration / 2 and startSecond = 0 the plan is
\* exactly [MainBody, CrossfadeBlend], MainBody = [fade, duration - fade),
\* and the two durations sum to duration - fadeDuration.
C5_MainBodyThenBlend ==
    (impl = "js" /\ IsCrossfadeRequest /\ NumericRequest /\ DurationKnown
        /\ duration > 0 /\ ReqFade > 0 /\ 2 * ReqFade < duration /\ ReqStart = 0
        /\ ConcatStarted)
    => /\ Plan = << Seg("MainBody", ReqFade, duration - 2 * ReqFade),
                    Seg("CrossfadeBlend", 0, ReqFade) >>
       /\ Plan[1].dur + Plan[2].dur = duration - ReqFade

C5_Witness ==
    /\ impl = "js" /\ IsCrossfadeRequest /\ NumericRequest /\ DurationKnown
    /\ ReqFade > 0 /\ 2 * ReqFade < duration /\ ReqStart = 0
    /\ Len(segments) = 2
    /\ outcome = "done"

\* C6: for an accepted Crossfade request with fadeDuration > 0 and
\* startSecond # 0, SegmentBeforeStart is neither extracted nor listed when
\* startSecond <= fadeDuration, SegmentAfterStart is neither extracted nor
\* listed when startSecond >= duration - fadeDuration, and no listed clip has
\* a duration that is not positive.
C6_EmptySegmentsOmitted ==
    (IsCrossfadeRequest /\ NumericRequest /\ DurationKnown
        /\ ReqFade > 0 /\ 2 * ReqFade < duration /\ ReqStart # 0)
    => /\ (ReqStart <= ReqFade =>
             ~Extracted("SegmentBeforeStart") /\ ~Listed("SegmentBeforeStart"))
       /\ (ReqStart >= duration - ReqFade =>
             ~Extracted("SegmentAfterStart") /\ ~Listed("SegmentAfterStart"))
       /\ \A i \in 1..Len(Plan) : Plan[i].dur > 0

\* C7: a Crossfade request with fadeDuration = 0 and startSecond = 0 is a
\* FullCopy: the output is the source unchanged, no ffmpeg call is issued and
\* no workspace directory is created.
C7_FullCopy ==
    (IsCrossfadeRequest /\ NumericRequest /\ ReqFade = 0 /\ ReqStart = 0)
    => /\ calls = <<>>
       /\ tempDir = "absent"
       /\ (outcome = "done" => output = SrcClip)

\* C8: a Crossfade request with fadeDuration = 0 and startSecond # 0 is
\* assembled from exactly SegmentAfterStart [start, end) then
\* SegmentBeforeStart [0, start), both extracted by stream copy; no
\* re-encoding extraction and no blend is issued.
C8_ZeroFadeReorder ==
    (IsCrossfadeRequest /\ IsNum(req.fadeDuration) /\ ReqFade = 0
        /\ (IsNum(req.startSecond) => ReqStart # 0))
    => /\ \A i \in 1..Len(calls) :
             /\ calls[i].op # "blend"
             /\ (calls[i].op = "extract" => calls[i].mode = "copy")
       /\ (ConcatStarted =>
             Plan = << Seg("SegmentAfterStart", ReqStart, ToEnd),
                       Seg("SegmentBeforeStart", 0, ReqStart) >>)

C8_Witness ==
    /\ impl = "js" /\ IsCrossfadeRequest /\ NumericRequest
    /\ ReqFade = 0 /\ ReqStart > 0 /\ ReqStart < src.len
    /\ Len(segments) = 2
    /\ outcome = "done"

\* C9: a Reverse invocation of VideoProcessor issues the reverse of the whole
\* source into the workspace and then, only after that succeeded, the
\* concatenation [original, reversed]; a successful one issued exactly these
\* two calls and its output lasts twice as long as the source.
C9_ReverseTwoCalls ==
    (impl = "js" /\ Technique # "crossfade")
    => /\ Len(calls) <= 2
       /\ (Len(calls) >= 1 =>
             /\ calls[1].op = "reverse"
             /\ calls[1].ins = <<"input">>
             /\ calls[1].out = "reverse.mp4")
       /\ (Len(calls) = 2 =>
             /\ calls[1].ok
             /\ calls[2].op = "concat_filter"
             /\ calls[2].ins = <<"input", "reverse.mp4">>
             /\ calls[2].out = "output")
       /\ (outcome = "done" =>
             /\ Len(calls) = 2
             /\ calls[2].ok
             /\ output = SrcClip \o ReverseClip(SrcClip)
             /\ Dur(output) = 2 * src.len)

C9_Witness ==
    /\ impl = "js" /\ Technique # "crossfade"
    /\ src.len > 0
    /\ Len(calls) = 2
    /\ outcome = "done"

\* C10: every technique value other than "crossfade" (unknown, empty or
\* missing) runs the Reverse pipeline and is never rejected for its value, at
\* the HTTP layer's normalisation as well as in the dispatch.
ReversePcs ==
    {"start", "rev_mkdir", "rev_reverse", "rev_concat", "rev_finally",
     "access_out", "sh_mkdir", "sh_analyze", "sh_simple_reverse",
     "sh_simple_concat", "sh_reverse", "sh_rev_concat", "sh_verify",
     "sh_trap", "end"}

C10_UnknownTechniqueIsReverse ==
    req.technique # "crossfade"
    => /\ pc \in ReversePcs
       /\ duration = NotProbed
       /\ error # "validation"
       /\ \A i \in 1..Len(calls) : calls[i].op \in {"reverse", "concat_filter"}

C10_Witness ==
    /\ req.technique \in {"pingpong", "", Missing}
    /\ Len(calls) = 2
    /\ calls[1].op = "reverse"
    /\ outcome = "done"

\* a stream-copy concatenation that failed and was rescued by the re-encoding
\* attempt that followed it
Rescued(i) ==
    /\ calls[i].op = "concat" /\ calls[i].mode = "copy"
    /\ i < Len(calls)
    /\ calls[i + 1].op = "concat" /\ calls[i + 1].mode = "encode"
    /\ calls[i + 1].ok

StepFailed == \E i \in 1..Len(calls) : ~calls[i].ok /\ ~Rescued(i)

\* C11: there is no degraded output: once a Transcoder step has failed (a
\* stream-copy concatenation rescued by the re-encode retry apart) the
\* invocation does not end in success, and an unmodified copy of the source
\* is not delivered as its result (VideoProcessor and loop-maker.sh).
C11_NoDegradedOutput ==
    StepFailed => /\ outcome # "done"
                  /\ (pc = "end" => output # SrcClip \/ src.len = 0)

\* C12: a failed extract, reverse or blend step is the last Transcoder call
\* of its invocation (the remaining steps are aborted, the step is not tried
\* again); the only step that is ever issued twice is the final
\* concatenation.
C12_AbortAfterFailure ==
    /\ \A i \in 1..Len(calls) :
         (~calls[i].ok /\ calls[i].op \in {"extract", "reverse", "blend"})
         => i = Len(calls)
    /\ \A i, j \in 1..Len(calls) :
         (i < j /\ calls[i].op = calls[j].op /\ calls[i].out = calls[j].out)
         => (calls[i].op = "concat" /\ j = i + 1 /\ j = Len(calls))

C12_Witness ==
    /\ impl = "js" /\ pc = "end" /\ outcome = "failed"
    /\ Len(calls) = 3
    /\ calls[3].op = "blend" /\ ~calls[3].ok

\* C13: when the probed duration is not a finite positive number, a
\* Crossfade invocation of VideoProcessor fails before any ffmpeg call is
\* issued and before a workspace is created; it never goes on to extraction.
C13_UnparsedDurationFails ==
    (impl = "js" /\ IsCrossfadeRequest /\ duration # NotProbed
        /\ (duration = NaN \/ duration <= 0))
    => /\ calls = <<>>
       /\ tempDir = "absent"
       /\ outcome # "done"

\* the frame rates the code falls back to (part_003 l.436, loop-maker.sh
\* l.76, l.187, l.209); no output in FpsOutputs denotes one of them, so a
\* frame rate in this set was never read from the stream
GuessedFps == {"30", "24"}

\* C14: the Prober never substitutes a guessed frame rate: absent or
\* unparseable frame-rate metadata makes probing fail, and no Transcoder call
\* carries a defaulted -r value.
C14_NoGuessedFps ==
    /\ fps \notin GuessedFps
    /\ \A i \in 1..Len(calls) : calls[i].r \notin GuessedFps

\* the time range of the source an extraction asks for: -ss (0 when absent)
\* and -t / -to (up to the probed end when absent)
SegStart(c) == IF c.ss = ToEnd THEN 0 ELSE c.ss
SegDur(c) == IF c.t = ToEnd THEN duration - SegStart(c) ELSE c.t
ExtractCalls == {i \in 1..Len(calls) : calls[i].op = "extract"}

\* C17: every segment VideoProcessor asks the Transcoder to extract has a
\* strictly positive duration, for every Crossfade request that is not
\* rejected (zero fade with any start, start negative or beyond the end
\* included); a segment of zero or negative duration is left out.
C17_PositiveSegments ==
    (impl = "js" /\ IsCrossfadeRequest /\ NumericRequest /\ DurationKnown)
    => \A i \in ExtractCalls : SegDur(calls[i]) > 0

\* C18: a Crossfade request with startSecond outside [0, duration) is
\* rejected or clamped: every time range extracted from the source starts at
\* or after 0 and ends at or before the end of the source (VideoProcessor
\* and loop-maker.sh).
C18_RangesInsideSource ==
    (IsCrossfadeRequest /\ NumericRequest /\ DurationKnown)
    => \A i \in ExtractCalls :
         /\ 0 <= SegStart(calls[i])
         /\ SegStart(calls[i]) + SegDur(calls[i]) <= duration

\* C19: no error is swallowed: VideoProcessor.createLoop resolves only if
\* every step it issued succeeded (a stream-copy concatenation rescued by
\* the re-encode retry apart) and the workspace was created and torn down;
\* a failure of a probe, the validation, a Transcoder step, both
\* concatenation attempts or the workspace creation / teardown rejects.
C19_NoSwallowedError ==
    (impl = "js" /\ outcome = "done")
    => /\ ~StepFailed
       /\ error = "none"
       /\ tempDir # "present"

\* C20: an invocation of VideoProcessor.createLoop that ends in Done has an
\* output file that exists and is not empty; one that ends in Failed carries
\* its error and has torn the workspace down; it ends in no other state.
C20_TerminalStates ==
    impl = "js" =>
      /\ (outcome = "done" =>
            /\ output # NoFile /\ output # Partial
            /\ (src.len > 0 => Dur(output) > 0))
      /\ (outcome = "failed" => error # "none" /\ tempDir # "present")
      /\ (pc = "end" <=> outcome \in {"done", "failed"})

\* the clips an invocation keeps inside its workspace
WorkspaceFiles ==
    {"reverse.mp4", "start.mp4", "end.mp4", "crossfade.mp4", "main.mp4",
     "seg1.mp4", "seg3.mp4", "after.mp4", "before.mp4",
     "true_start.mp4", "true_end.mp4", "crossfade_segment.mp4",
     "main_body.mp4", "seg1_after_start.mp4", "seg3_before_start.mp4",
     "after_start_nofade.mp4", "before_start_nofade.mp4"}

\* C21: the engine never mutates or deletes the source asset: on every path
\* of Reverse and Crossfade, failures and teardown included, the source is
\* only an input of the Transcoder calls, and every file that is written is
\* a clip inside the workspace or the output file, never the source.
C21_SourceOnlyRead ==
    /\ \A i \in 1..Len(calls) :
         /\ calls[i].out # "input"
         /\ calls[i].out \notin {calls[i].ins[k] : k \in 1..Len(calls[i].ins)}
         /\ calls[i].out \in WorkspaceFiles \cup {"output"}
    /\ DOMAIN tmpFiles \subseteq WorkspaceFiles

C21_Witness ==
    /\ IsCrossfadeRequest /\ pc = "end" /\ outcome = "failed"
    /\ Len(calls) >= 4
    /\ tempDir = "removed"

\* the request of end-to-end scenario 2 on VideoProcessor: a source of 10
\* ticks, fadeDuration 1, startSecond 0, and the run has resolved
Scenario2Done ==
    /\ impl = "js" /\ IsCrossfadeRequest
    /\ req.fadeDuration = Num(1) /\ req.startSecond = Num(0)
    /\ src.len = 10 /\ duration = 10
    /\ outcome = "done"

\* C22 (as claimed): for duration 10, fadeDuration 1, startSecond 0 the plan
\* covers 9 ticks of distinct source content plus a blend of 1 tick, and the
\* output lasts 10 ticks.
C22_ScenarioTotalTen ==
    Scenario2Done
    => /\ Plan[1].dur = 9
       /\ Plan[2].dur = 1
       /\ Dur(output) = 10

\* C22 (amended): for duration 10, fadeDuration 1, startSecond 0 the plan is
\* MainBody [1, 9) of 8 ticks followed by a blend of 1 tick made of the
\* boundary clips [9, 10) and [0, 1); the output lasts 9 ticks, that is
\* duration - fadeDuration.
C22_ScenarioTotalNine ==
    Scenario2Done
    => /\ Plan = << Seg("MainBody", 1, 8), Seg("CrossfadeBlend", 0, 1) >>
       /\ output = << Piece("fwd", 1, 9, 8), Piece("blend", 9, 1, 1) >>
       /\ Dur(output) = 9

C22_Witness ==
    /\ Scenario2Done
    /\ Len(calls) >= 5
    /\ Dur(output) = 9

\* the clip `name` has been written by a successful call issued before call i
MadeBefore(name, i) ==
    \E j \in 1..(i - 1) : calls[j].out = name /\ calls[j].ok

BlendCalls == {i \in 1..Len(calls) : calls[i].op = "blend"}

\* C27: within one Crossfade invocation of VideoProcessor the ffmpeg calls
\* are strictly sequential in the order Validate -> boundary clips -> blend
\* -> remaining segments -> concatenation: no call is issued before the
\* request passed validation, a call is issued only after the one before it
\* succeeded (the re-encoding concatenation alone follows a failed call, the
\* stream-copy attempt), the blend only after start.mp4 and end.mp4 were both
\* extracted successfully, and concatenation only after the blend and every
\* clip of its list were made successfully.  Every runFFmpeg is awaited, so
\* a call is one step and no two processes of the invocation overlap.
C27_StrictSequence ==
    (impl = "js" /\ IsCrossfadeRequest) =>
      /\ calls # <<>> =>
           /\ duration # NotProbed /\ fps # "unset"
           /\ Validate(fadeDuration, startSecond, duration) # "reject"
      /\ \A i \in 1..Len(calls) :
           /\ i > 1 =>
                \/ calls[i - 1].ok
                \/ /\ calls[i - 1].op = "concat" /\ calls[i - 1].mode = "copy"
                   /\ calls[i].op = "concat" /\ calls[i].mode = "encode"
           /\ calls[i].op = "blend" =>
                MadeBefore("start.mp4", i) /\ MadeBefore("end.mp4", i)
           /\ calls[i].op = "concat" =>
                /\ ~JsIsZero(fadeDuration) => MadeBefore("crossfade.mp4", i)
                /\ \A k \in 1..Len(calls[i].ins) : MadeBefore(calls[i].ins[k], i)

C27_Witness ==
    /\ impl = "js" /\ IsCrossfadeRequest
    /\ BlendCalls # {}
    /\ Len(segments) = 3
    /\ Len(ConcatCalls) = 2
    /\ outcome = "done"

\* C28: a Crossfade request rejected by validation never had a workspace: when
\* the invocation is Rejected no workspace directory exists or has existed,
\* no intermediate file was written and no ffmpeg call was issued.
C28_RejectedWithoutWorkspace ==
    (IsCrossfadeRequest /\ error = "validation")
    => /\ tempDir = "absent"
       /\ tmpFiles = <<>>
       /\ calls = <<>>

\* C29: for every accepted Crossfade request of VideoProcessor with
\* fadeDuration > 0, whatever startSecond is, the blend is built at most once
\* and exactly once before concatenation starts; it is a re-encoding xfade of
\* end.mp4 = [duration - fade, duration) into start.mp4 = [0, fade) with
\* duration fade and offset 0, and crossfade.mp4 appears exactly once in the
\* concat list.
C29_BlendOnce ==
    (impl = "js" /\ IsCrossfadeRequest /\ IsNum(req.fadeDuration) /\ DurationKnown
        /\ ReqFade > 0 /\ 2 * ReqFade < duration)
    => /\ Cardinality(BlendCalls) <= 1
       /\ \A i \in BlendCalls :
            /\ calls[i].mode = "encode"
            /\ calls[i].ins = <<"end.mp4", "start.mp4">>
            /\ calls[i].ss = 0 /\ calls[i].t = ReqFade
            /\ \E j \in 1..(i - 1) :
                 /\ calls[j].out = "end.mp4" /\ calls[j].ok
                 /\ calls[j].mode = "encode"
                 /\ calls[j].ss = duration - ReqFade /\ calls[j].t = ToEnd
            /\ \E j \in 1..(i - 1) :
                 /\ calls[j].out = "start.mp4" /\ calls[j].ok
                 /\ calls[j].mode = "encode"
                 /\ calls[j].ss = ToEnd /\ calls[j].t = ReqFade
            /\ (calls[i].ok /\ "crossfade.mp4" \in DOMAIN tmpFiles) =>
                 tmpFiles["crossfade.mp4"]
                     = <<Piece("blend", duration - ReqFade, ReqFade, ReqFade)>>
       /\ (ConcatStarted \/ outcome = "done") =>
            /\ Cardinality(BlendCalls) = 1
            /\ Cardinality({k \in 1..Len(segments) :
                               segments[k] = "crossfade.mp4"}) = 1

C29_Witness ==
    /\ impl = "js" /\ IsCrossfadeRequest /\ NumericRequest /\ DurationKnown
    /\ ReqFade > 0 /\ 2 * ReqFade < duration /\ ReqStart > 0
    /\ Cardinality(BlendCalls) = 1
    /\ Len(segments) = 3
    /\ outcome = "done"

\* where a segment of the plan starts and ends in source time, the blend
\* taken as running from duration - fade to fade
SegFrom(s) == IF s.role = "CrossfadeBlend" THEN duration - ReqFade ELSE s.start
SegTo(s) ==
    IF s.role = "CrossfadeBlend" THEN ReqFade
    ELSE IF s.dur = ToEnd THEN duration ELSE s.start + s.dur

\* C30: for every accepted Crossfade request with fadeDuration > 0 and
\* startSecond in [0, duration) the plan handed to concatenation is cyclically
\* contiguous: each segment starts at the source time where the one before it
\* ends, and the first starts where the last ends.
C30_CyclicContiguity ==
    (IsCrossfadeRequest /\ NumericRequest /\ DurationKnown
        /\ ReqFade > 0 /\ 2 * ReqFade < duration
        /\ ReqStart >= 0 /\ ReqStart < duration
        /\ ConcatStarted)
    => \A i \in 1..Len(Plan) :
         SegTo(Plan[i]) = SegFrom(Plan[(i % Len(Plan)) + 1])

\* C23: a POST /api/loop request without a file is answered with status 400
\* and nothing else: the processor is never called and no temporary file or
\* directory is created or removed (server.ts and the serverless handler).
C23_NoFileIs400 ==
    ~post.hasFile =>
      /\ effects = <<>>
      /\ tmp = NoFiles
      /\ hpc = "done" => responses = <<Response(400, "application/json")>>
      /\ hpc # "done" => responses = <<>>

C23_Witness ==
    /\ ~post.hasFile
    /\ hpc = "done"
    /\ responses = <<Response(400, "application/json")>>
    /\ variant = "server"

\* the processor resolved and the handler found the output file
Succeeded ==
    /\ \E i \in 1..Len(effects) : effects[i].op = "createLoop" /\ effects[i].ok
    /\ \E i \in 1..Len(effects) : effects[i].op = "download"

\* C24 as stated: in server.ts a request with a file gets exactly one
\* response; it is the 200 video/mp4 download whenever processing succeeded
\* and the output file exists, and a 500 JSON error whenever processing failed
\* or the output is missing.
C24_DownloadOrError ==
    (variant = "server" /\ post.hasFile /\ hpc = "done") =>
      /\ Len(responses) = 1
      /\ Succeeded => responses[1] = Response(200, "video/mp4")
      /\ ~Succeeded => responses[1] = Response(500, "application/json")

\* C24 amended: exactly one response; it is the 200 video/mp4 download when
\* processing succeeded, the output exists and res.download got as far as the
\* headers, and a 500 JSON error when processing failed, the output is
\* missing, or the download failed before anything was sent.
C24_DownloadStartedOrError ==
    (variant = "server" /\ post.hasFile /\ hpc = "done") =>
      /\ Len(responses) = 1
      /\ (Succeeded /\ derr # "early") => responses[1] = Response(200, "video/mp4")
      /\ (~Succeeded \/ derr = "early") => responses[1] = Response(500, "application/json")

C24_Witness ==
    /\ variant = "server" /\ post.hasFile /\ hpc = "done"
    /\ Succeeded /\ derr = "late"
    /\ responses = <<Response(200, "video/mp4")>>

\* a call of submit() has not returned yet
RequestInProgress == subs # <<>>

\* C25: the submit button of LoopMakerUploader is enabled exactly when a file
\* is chosen and no request is in progress: busy is true exactly while a
\* submit is under way, the button is disabled then and while nothing is
\* chosen, and as long as nothing is chosen no call of submit() has sent a
\* request or changed the form.
C25_ButtonEnabledIffReady ==
    /\ ButtonDisabled <=> (file = NoFileChosen \/ RequestInProgress)
    /\ busy <=> RequestInProgress
    /\ file = NoFileChosen => (fetches = 0 /\ ~busy /\ status = "" /\ subs = <<>>)
    /\ fetches <= submits

C25_Witness ==
    /\ file # NoFileChosen
    /\ busy /\ ButtonDisabled
    /\ RequestInProgress
    /\ submits = 2 /\ fetches = 1

\* C26: once the caller has cancelled or timed out, the invocation issues no
\* further ffmpeg call, never resolves with an output, and has released its
\* workspace when it settles.
C26_StopsWhenCancelled ==
    cancelled # NotCancelled =>
      /\ Len(calls) = cancelled
      /\ outcome # "done"
      /\ outcome # "running" => tempDir # "present"

\* the durations of the plan added up, the blend counted as fadeDuration
RECURSIVE PlanTotal(_)
PlanTotal(p) ==
    IF p = <<>> THEN 0
    ELSE (IF p[1].role = "CrossfadeBlend" THEN ReqFade ELSE p[1].dur)
             + PlanTotal(Tail(p))

\* C31: for every accepted Crossfade request of VideoProcessor with
\* fadeDuration > 0 the durations of the segments handed to concatenation,
\* the blend counted as fadeDuration, add up to duration - fadeDuration,
\* whatever startSecond is.
C31_PlanTotal ==
    (impl = "js" /\ IsCrossfadeRequest /\ NumericRequest /\ DurationKnown
        /\ ReqFade > 0 /\ 2 * ReqFade < duration /\ ConcatStarted)
    => PlanTotal(Plan) = duration - ReqFade

\* the concat list is the blend alone
BlendOnly == segments = <<"crossfade.mp4">>

\* C32: in VideoProcessor a request that passes validation
\* (0 < fadeDuration < duration / 2) with a numeric startSecond never has
\* both SegmentAfterStart and SegmentBeforeStart omitted: its concat list has
\* at least two entries.  A list of the blend alone, where it does arise, is
\* no validation error: concatenation is attempted and the invocation
\* resolves exactly when a concatenation attempt succeeded.
C32_BlendOnlyPlan ==
    (impl = "js" /\ IsCrossfadeRequest /\ IsNum(req.fadeDuration) /\ DurationKnown
        /\ ReqFade > 0 /\ 2 * ReqFade < duration /\ ConcatStarted)
    => /\ IsNum(req.startSecond) => Len(segments) >= 2
       /\ BlendOnly =>
            /\ error # "validation"
            /\ outcome # "running" =>
                 (outcome = "done"
                    <=> \E i \in 1..Len(calls) :
                           calls[i].op = "concat" /\ calls[i].ok)

C32_Witness ==
    /\ impl = "js" /\ IsCrossfadeRequest /\ IsNum(req.fadeDuration) /\ DurationKnown
    /\ ReqFade > 0 /\ 2 * ReqFade < duration
    /\ BlendOnly
    /\ outcome = "done"

\* a plan of VideoProcessor with its times in quarters of a tick
Quarters(p) ==
    [i \in 1..Len(p) |-> [role |-> p[i].role, start |-> 4 * p[i].start,
                          dur |-> 4 * p[i].dur]]

\* C33: VideoProcessor.createCrossfadeLoop and the createCrossfadeLoop of the
\* serverless app plan alike: for every duration, fadeDuration and
\* startSecond they agree on accept / reject (the serverless planner rejects
\* no request whose duration it could read), on the fade length used, and on
\* the ordered list of segments (roles, start times, durations) handed to
\* concatenation.
C33_SamePlanner ==
    (impl = "js" /\ IsCrossfadeRequest /\ DurationKnown) =>
      /\ error # "validation"
      /\ \A i \in BlendCalls :
           4 * calls[i].t = SlFadeUsed(req.fadeDuration, duration)
      /\ ConcatStarted =>
           Quarters(Plan) = SlPlan(req.fadeDuration, req.startSecond, duration)

\* C34: loop-maker.sh and VideoProcessor.createLoop behave alike.  What
\* every invocation of createLoop does is required of both: (a) validation
\* comes before the zero-fade shortcut, so a Crossfade request with
\* fadeDuration >= duration / 2 issues no call, writes no output and does not
\* succeed; (b) startSecond counts as 0 by its numeric value, so "0.0" takes
\* the [MainBody, CrossfadeBlend] plan; (c) a Reverse request one of whose
\* ffmpeg steps failed does not succeed and leaves no copy of the source as
\* its output.
C34_SameBehaviour ==
    /\ (IsCrossfadeRequest /\ IsNum(req.fadeDuration) /\ DurationKnown
           /\ 2 * ReqFade >= duration)
       => (calls = <<>> /\ output = NoFile /\ outcome # "done")
    /\ (IsCrossfadeRequest /\ NumericRequest /\ DurationKnown
           /\ ReqFade > 0 /\ 2 * ReqFade < duration /\ ReqStart = 0
           /\ ConcatStarted)
       => (Len(segments) = 2 /\ Role(segments[1]) = "MainBody")
    /\ (req.technique = "reverse" /\ StepFailed)
       => (outcome # "done" /\ output # SrcClip)

\* C35: once a serverless handler has answered a request that carried a
\* file, with the video or with a 500, the request's temp directory, the
\* saved input and the output file exist no longer.
C35_ServerlessTempGone ==
    (variant = "serverless" /\ post.hasFile /\ hpc = "done")
    => \A f \in DOMAIN tmp : tmp[f] # "present"

\* the places in effects where the handler tried to remove file f
UnlinkAttempts(f) ==
    {i \in 1..Len(effects) : effects[i].op = "unlink" /\ effects[i].on = f}

\* C36: in server.ts, once a request whose file was saved has been handled,
\* an unlink of the input and an unlink of the output have both been
\* attempted - after a completed download, after a failed one and after a
\* processing failure - and no unlink comes before the end of the download.
C36_BothUnlinked ==
    (variant = "server" /\ tmp.tmpIn # "absent") =>
      /\ hpc = "done" =>
           (UnlinkAttempts("tmpIn") # {} /\ UnlinkAttempts("tmpOut") # {})
      /\ \A i \in UnlinkAttempts("tmpIn") \cup UnlinkAttempts("tmpOut") :
           \A j \in 1..Len(effects) : effects[j].op = "download" => j < i
      /\ hpc \in {"createLoop", "access", "download"} => tmp.tmpIn = "present"
      /\ hpc = "download" => tmp.tmpOut = "present"

C36_Witness ==
    /\ variant = "server" /\ hpc = "done"
    /\ derr = "early"
    /\ UnlinkAttempts("tmpIn") # {} /\ UnlinkAttempts("tmpOut") # {}
    /\ tmp.tmpIn = "removed" /\ tmp.tmpOut = "present"

C38_OneRequestInFlight ==
    /\ Len(subs) <= 1
    /\ fetches <= submits
    /\ subs # <<>> => ButtonDisabled

C38_Witness ==
    /\ Len(subs) = 1
    /\ fetches = 2
    /\ file # subs[1].form.video

\* an invocation that has chosen its workspace path and has not yet left the
\* finally block that tears it down
InFlight(p) ==
    inv[p].pc \in {"rev_mkdir", "rev_reverse", "rev_concat", "rev_finally"}

\* C15: at every moment no two in-flight invocations use the same workspace
\* directory, invocations started within one clock tick on sources of one
\* directory included.
C15_DistinctWorkspaces ==
    \A p, q \in DOMAIN inv :
       (p # q /\ InFlight(p) /\ InFlight(q))
       => inv[p].tempDir # inv[q].tempDir

\* C16: concurrent invocations of createLoop do not interfere: the workspace
\* an invocation created and the reverse clip it wrote are still there, and
\* still its own, when it reads them (no teardown or write of another
\* invocation touched them), and the output file of a resolved invocation
\* was written by that invocation from its own clips.
C16_NoInterference ==
    \A p \in DOMAIN inv :
       /\ (inv[p].pc \in {"rev_reverse", "rev_concat"}
             => dirs[inv[p].tempDir].exists)
       /\ (inv[p].pc = "rev_concat"
             => dirs[inv[p].tempDir].reverse = Reversed(inv[p].inputFile, p))
       /\ (inv[p].outcome = "done"
             => outs[inv[p].inputFile]
                  = Looped(inv[p].inputFile, Reversed(inv[p].inputFile, p), p))

Next ==
    \/ CreateLoop
    \/ CreateLoopVerify
    \/ ReverseMkdir
    \/ ReverseExtract
    \/ ReverseConcat
    \/ ReverseFinally
    \/ GetVideoDuration
    \/ GetVideoFPS
    \/ CrossfadeCopy
    \/ CrossfadeMkdir
    \/ CrossfadeStartClip
    \/ CrossfadeEndClip
    \/ CrossfadeBlend
    \/ CrossfadeMainClip
    \/ CrossfadeSeg1
    \/ CrossfadeSeg3
    \/ CrossfadeFinally
    \/ ConcatCopy
    \/ ConcatReencode
    \/ ReorderMkdir
    \/ ReorderAfter
    \/ ReorderBefore
    \/ ReorderFinally
    \/ ShStart
    \/ ShMkdir
    \/ ShAnalyze
    \/ ShSimpleReverse
    \/ ShSimpleConcat
    \/ ShProbeDuration
    \/ ShProbeFps
    \/ ShZeroCopy
    \/ ShReorderAfter
    \/ ShReorderBefore
    \/ ShReorderConcat
    \/ ShStartClip
    \/ ShEndClip
    \/ ShBlend
    \/ ShMainClip
    \/ ShSeg1
    \/ ShSeg3
    \/ ShConcat
    \/ ShReverse
    \/ ShReverseConcat
    \/ ShVerify
    \/ ShTrap

Spec == Init /\ [][Next]_<<vars, pair, outside>>

\* the single invocation of Spec is not running: the state of its variables
\* in Concurrent
NoSingle ==
    /\ impl = "js"
    /\ req = [technique |-> Missing, viaHttp |-> FALSE,
              fadeDuration |-> Num(0), startSecond |-> Num(0)]
    /\ src = [len |-> 0]
    /\ pc = "end"
    /\ ret = "none"
    /\ hasBc = TRUE
    /\ duration = NotProbed
    /\ fps = "unset"
    /\ calls = <<>>
    /\ segments = <<>>
    /\ tempDir = "absent"
    /\ tmpFiles = <<>>
    /\ output = NoFile
    /\ error = "none"
    /\ outcome = "running"

InitPair ==
    /\ NoSingle
    /\ cancelled = NotCancelled
    /\ NoRequest
    /\ NoForm
    /\ now = 0
    /\ inv \in [Procs -> [inputFile : InputFiles, tempDir : {NoPath}, pc : {"start"},
                          error : {"none"}, outcome : {"running"}]]
    /\ dirs = [d \in TempDirs |-> [exists |-> FALSE, reverse |-> <<>>]]
    /\ outs = [f \in InputFiles |-> <<>>]

NextPair ==
    \/ \E p \in Procs : CreateLoopP(p)
    \/ \E p \in Procs : ReverseMkdirP(p)
    \/ \E p \in Procs : ReverseExtractP(p)
    \/ \E p \in Procs : ReverseConcatP(p)
    \/ \E p \in Procs : ReverseFinallyP(p)
    \/ \E p \in Procs : CreateLoopVerifyP(p)
    \/ Tick

Concurrent == InitPair /\ [][NextPair]_<<vars, pair, outside>>

\* --------------------------------- an invocation whose caller may give up
\* a few requests that between them take every branch of both implementations
InitCancellation ==
    /\ Init
    /\ req.technique \in {"crossfade", "reverse"}
    /\ ~req.viaHttp
    /\ req.fadeDuration \in {Num(0), Num(1)}
    /\ req.startSecond \in {Num(0), Num(2)}
    /\ src.len = 5

Cancellation == InitCancellation /\ [][Next \/ Cancel]_<<vars, pair, outside>>

\* ------------------------------------------------ one POST /api/loop request
InitHttp ==
    /\ NoSingle
    /\ NoInvocations
    /\ NoForm
    /\ cancelled = NotCancelled
    /\ variant \in {"server", "serverless"}
    /\ post \in [hasFile : BOOLEAN, technique : RawTechniques]
    /\ hpc = "upload"
    /\ tmp = NoFiles
    /\ effects = <<>>
    /\ responses = <<>>
    /\ derr = "none"

NextHttp ==
    \/ Upload
    \/ Handler
    \/ ServerCreateLoop
    \/ ServerAccess
    \/ ServerDownload
    \/ ServerCallback
    \/ ServerCatch
    \/ SlMkdir
    \/ SlWrite
    \/ SlProcess
    \/ SlExists
    \/ SlSend
    \/ SlCleanup
    \/ SlCatch

Http == InitHttp /\ [][NextHttp]_<<vars, pair, outside>>

\* ------------------------------------------------------- the upload form
InitUploader ==
    /\ NoSingle
    /\ NoInvocations
    /\ NoRequest
    /\ cancelled = NotCancelled
    /\ NoForm

NextUploader ==
    \/ Pick
    \/ HandleTechniqueChange
    \/ HandleFadeDurationChange
    \/ HandleStartSecondChange
    \/ Submit
    \/ \E i \in 1..Len(subs) : FetchSettles(i)
    \/ \E i \in 1..Len(subs) : ResJson(i)
    \/ \E i \in 1..Len(subs) : ResBlob(i)

Uploader == InitUploader /\ [][NextUploader]_<<vars, pair, outside>>

\* the promises of fetch, res.json and res.blob settle, and the event loop
\* then runs the continuation of submit
UploaderFair ==
    /\ Uploader
    /\ WF_<<vars, pair, outside>>(\E i \in 1..Len(subs) : FetchSettles(i))
    /\ WF_<<vars, pair, outside>>(\E i \in 1..Len(subs) : ResJson(i))
    /\ WF_<<vars, pair, outside>>(\E i \in 1..Len(subs) : ResBlob(i))
====
